---- MODULE Spec2Model ----
(***************************************************************************)
(* A model of the polymorphic type-inference core of poly: the inference   *)
(* driver (infer.go) and the two instantiation routines                    *)
(* (internal/typeutil/instantiate.go and instantiate.go).                  *)
(*                                                                         *)
(* Types are records tagged by "kind".  Type variables are references      *)
(* [kind |-> "Var", id |-> n] into the store `vars`; recursive groups are  *)
(* references into the heap `recs`.  Every routine of the program is an    *)
(* operator from a context record (the fields of the inference context     *)
(* and of its common context) to the context it leaves behind.             *)
(***************************************************************************)
EXTENDS Integers, Sequences, FiniteSets, TLC

\* ------------------------------------------------------------------ bounds

\* Number of top-level calls made on one context in a behaviour.
MaxCalls == 2

\* Levels at which Instantiate is called: 0..MaxLevel.
MaxLevel == 1

\* Longest type list of a scoped label in the types handed to Instantiate.
MaxList == 2

\* ------------------------------------------------------------------- types

NilType == [kind |-> "nil"]
TUnit == [kind |-> "Unit"]
TConst(name) == [kind |-> "Const", Name |-> name]
TVar(id) == [kind |-> "Var", id |-> id]
TApp(constructor, params) ==
    [kind |-> "App", Const |-> constructor, Args |-> params, Underlying |-> NilType]
TAlias(app, underlying) ==
    [kind |-> "App", Const |-> app.Const, Args |-> app.Args, Underlying |-> underlying]
TRef(deref) == TApp(TConst("ref"), <<deref>>)
TArrow(args, ret) == [kind |-> "Arrow", Args |-> args, Return |-> ret, Method |-> NilType]
TMethod(name) == [kind |-> "Method", Name |-> name]
TRecord(row) == [kind |-> "Record", Row |-> row]
TVariant(row) == [kind |-> "Variant", Row |-> row]
RowEmptyPointer == [kind |-> "RowEmpty"]
TRowExtend(row, labels) ==
    [kind |-> "RowExtend", Row |-> IF row = NilType THEN RowEmptyPointer ELSE row,
     Labels |-> labels]
TRecursiveLink(rec, index) == [kind |-> "RecursiveLink", Recursive |-> rec, Index |-> index]

TInt == TConst("int")
TBool == TConst("bool")

\* A label map is a sequence of entries ordered by label; each entry holds the
\* label's ordered type list (more than one type for a scoped label).
LabelEntry(label, ts) == [Label |-> label, Types |-> ts]
SingletonTypeList(t) == <<t>>
SingletonTypeMap(label, t) == <<LabelEntry(label, SingletonTypeList(t))>>

\* TypeMapBuilder.Set on the entry at position i.
MapSetAt(m, i, ts) == [m EXCEPT ![i] = LabelEntry(m[i].Label, ts)]

\* --------------------------------------------------------------- variables

\* A fresh variable: unbound, monomorphic, unconstrained, not weak.
NewVarCell(level) ==
    [state |-> "unbound", level |-> level, weak |-> FALSE, size |-> FALSE,
     link |-> NilType, constraints |-> <<>>]

\* VarTracker.New: allocates the next identifier.
VarTrackerNew(c, level) ==
    [c |-> [c EXCEPT !.vars = Append(@, NewVarCell(level))],
     t |-> TVar(Len(c.vars) + 1)]

SetWeak(c, tv) == [c EXCEPT !.vars[tv.id].weak = TRUE]
RestrictSizeVar(c, tv) == [c EXCEPT !.vars[tv.id].size = TRUE]
SetConstraints(c, tv, cs) == [c EXCEPT !.vars[tv.id].constraints = cs]

IsGenericVar(c, t) == t.kind = "Var" /\ c.vars[t.id].state = "generic"
IsUnboundVar(c, t) == t.kind = "Var" /\ c.vars[t.id].state = "unbound"
IsLinkVar(c, t) == t.kind = "Var" /\ c.vars[t.id].state = "link"

RECURSIVE RealType(_, _)
RealType(c, t) ==
    IF IsLinkVar(c, t) THEN RealType(c, c.vars[t.id].link) ELSE t

RECURSIVE IsGeneric(_, _)
RECURSIVE AnyGeneric(_, _)
AnyGeneric(c, ts) ==
    \E i \in 1..Len(ts) : IsGeneric(c, ts[i])

\* Type.IsGeneric: the type holds a generic variable.  A Method is resolved on
\* every instantiation, so it always counts as generic; a RecursiveLink reads
\* the ContainsGenericVars flag of its group.
IsGeneric(c, t) ==
    CASE t.kind = "Var" ->
            IF c.vars[t.id].state = "link" THEN IsGeneric(c, c.vars[t.id].link)
            ELSE c.vars[t.id].state = "generic"
      [] t.kind = "App" ->
            \/ IsGeneric(c, t.Const)
            \/ AnyGeneric(c, t.Args)
            \/ (t.Underlying # NilType /\ IsGeneric(c, t.Underlying))
      [] t.kind = "Arrow" -> AnyGeneric(c, t.Args) \/ IsGeneric(c, t.Return)
      [] t.kind = "Method" -> TRUE
      [] t.kind \in {"Record", "Variant"} -> IsGeneric(c, t.Row)
      [] t.kind = "RowExtend" ->
            \/ IsGeneric(c, t.Row)
            \/ \E i \in 1..Len(t.Labels) : AnyGeneric(c, t.Labels[i].Types)
      [] t.kind = "RecursiveLink" -> c.recs[t.Recursive].ContainsGenericVars
      [] OTHER -> FALSE

\* ------------------------------------------- internal/typeutil/instantiate.go

\* The *types.Var case: one fresh variable per generic id, memoized in InstLookup.
visitInstantiateVar(c, level, t) ==
    IF t.id \in DOMAIN c.InstLookup THEN [c |-> c, t |-> c.InstLookup[t.id]]
    ELSE LET n == VarTrackerNew(c, level)
             tv == n.t
             c1 == IF c.vars[t.id].weak THEN SetWeak(n.c, tv) ELSE n.c
             c2 == IF c.vars[t.id].size THEN RestrictSizeVar(c1, tv) ELSE c1
             constraints2 == [i \in 1..Len(c.vars[t.id].constraints) |->
                                 c.vars[t.id].constraints[i]]
             c3 == SetConstraints(c2, tv, constraints2)
         IN [c |-> [c3 EXCEPT !.InstLookup = (t.id :> tv) @@ @], t |-> tv]

\* `arrow.Method = t` on the arrow visitInstantiate returned for the method
\* table's entry: a fresh arrow when the entry is generic, the entry itself
\* (returned as is by the non-generic early return) otherwise.
StampMethod(c0, r, t) ==
    IF IsGeneric(c0, c0.Methods[t.Name])
    THEN [c |-> r.c, t |-> [r.t EXCEPT !.Method = t]]
    ELSE [c |-> [r.c EXCEPT !.Methods[t.Name].Method = t],
          t |-> [r.t EXCEPT !.Method = t]]

\* ts.Range(func(i, t) bool { generic = t.IsGeneric(); return generic }):
\* the walk stops at the first entry for which the callback returns false.
RECURSIVE RangeGeneric(_, _, _, _)
RangeGeneric(c, ts, i, generic) ==
    IF i > Len(ts) THEN generic
    ELSE IF IsGeneric(c, ts[i]) THEN RangeGeneric(c, ts, i + 1, TRUE)
    ELSE FALSE

RECURSIVE visitInstantiate(_, _, _)
RECURSIVE visitArgs(_, _, _, _)
RECURSIVE visitGenericEntries(_, _, _, _)
RECURSIVE visitLabels(_, _, _, _, _)
RECURSIVE visitRecTypes(_, _, _, _)

\* for i, arg := range t.Args { args[i] = ctx.visitInstantiate(level, arg) }
visitArgs(c, level, ts, i) ==
    IF i > Len(ts) THEN [c |-> c, ts |-> ts]
    ELSE LET r == visitInstantiate(c, level, ts[i])
         IN visitArgs(r.c, level, [ts EXCEPT ![i] = r.t], i + 1)

\* ts.Range(func(i, t) bool { if t.IsGeneric() { lb.Set(i, visit(t)) }; return true })
visitGenericEntries(c, level, ts, i) ==
    IF i > Len(ts) THEN [c |-> c, ts |-> ts]
    ELSE IF IsGeneric(c, ts[i])
         THEN LET r == visitInstantiate(c, level, ts[i])
              IN visitGenericEntries(r.c, level, [ts EXCEPT ![i] = r.t], i + 1)
         ELSE visitGenericEntries(c, level, ts, i + 1)

\* m.Range over the labels of a RowExtend; mb is the builder of the new map.
visitLabels(c, level, m, mb, i) ==
    IF i > Len(m) THEN [c |-> c, m |-> mb]
    ELSE LET ts == m[i].Types IN
         IF Len(ts) = 1
         THEN IF IsGeneric(c, ts[1])
              THEN LET r == visitInstantiate(c, level, ts[1])
                   IN visitLabels(r.c, level, m, MapSetAt(mb, i, SingletonTypeList(r.t)), i + 1)
              ELSE visitLabels(c, level, m, mb, i + 1)
         ELSE IF ~RangeGeneric(c, ts, 1, FALSE)
              THEN visitLabels(c, level, m, mb, i + 1)
              ELSE LET r == visitGenericEntries(c, level, ts, 1)
                   IN visitLabels(r.c, level, m, MapSetAt(mb, i, r.ts), i + 1)

\* A link left as it is, to the group it came from.
LinkToSource(c, rec, t) == t

\* if next := ctx.RecInstLookup[rec.Id]; next != nil: the link to the copy the
\* call has already made of the group, with the index of the source link.
LinkToCopy(c, rec, t) == TRecursiveLink(c.RecInstLookup[rec.Id], t.Index)

\* for i, ti := range next.Types { next.Types[i] = visit(ti).(*types.App) }
visitRecTypes(c, level, next, i) ==
    IF i > Len(c.recs[next].Types) THEN c
    ELSE LET r == visitInstantiate(c, level, c.recs[next].Types[i])
         IN visitRecTypes([r.c EXCEPT !.recs[next].Types[i] = r.t], level, next, i + 1)

visitInstantiate(c, level, t) ==
    IF ~IsGeneric(c, t) THEN [c |-> c, t |-> t]
    ELSE CASE t.kind = "Var" -> visitInstantiateVar(c, level, t)
      [] t.kind = "RecursiveLink" ->
            LET rec == c.recs[t.Recursive] IN
            IF rec.Id \in DOMAIN c.RecInstLookup
            THEN [c |-> c, t |-> LinkToCopy(c, rec, t)]
            ELSE LET next == Len(c.recs) + 1
                     c1 == [c EXCEPT !.recs = Append(@, [rec EXCEPT !.Instantiated = TRUE]),
                                     !.RecInstLookup = (rec.Id :> next) @@ @]
                     c2 == visitRecTypes(c1, level, next, 1)
                 IN [c |-> [c2 EXCEPT !.recs[next].ContainsGenericVars = FALSE],
                     t |-> TRecursiveLink(next, t.Index)]
      [] t.kind = "App" ->
            LET a == visitArgs(c, level, t.Args, 1)
                u == IF t.Underlying # NilType
                     THEN visitInstantiate(a.c, level, t.Underlying)
                     ELSE [c |-> a.c, t |-> NilType]
                k == visitInstantiate(u.c, level, t.Const)
            IN [c |-> k.c,
                t |-> [kind |-> "App", Const |-> k.t, Args |-> a.ts, Underlying |-> u.t]]
      [] t.kind = "Arrow" ->
            LET a == visitArgs(c, level, t.Args, 1)
                r == visitInstantiate(a.c, level, t.Return)
            IN [c |-> r.c,
                t |-> [kind |-> "Arrow", Args |-> a.ts, Return |-> r.t, Method |-> t.Method]]
      [] t.kind = "Method" ->
            StampMethod(c, visitInstantiate(c, level, c.Methods[t.Name]), t)
      [] t.kind = "Record" ->
            LET r == visitInstantiate(c, level, t.Row) IN [c |-> r.c, t |-> TRecord(r.t)]
      [] t.kind = "Variant" ->
            LET r == visitInstantiate(c, level, t.Row) IN [c |-> r.c, t |-> TVariant(r.t)]
      [] t.kind = "RowExtend" ->
            LET l == visitLabels(c, level, t.Labels, t.Labels, 1)
                r == IF t.Row = NilType THEN [c |-> l.c, t |-> RowEmptyPointer]
                     ELSE IF t.Row.kind # "RowEmpty" THEN visitInstantiate(l.c, level, t.Row)
                     ELSE [c |-> l.c, t |-> t.Row]
            IN [c |-> r.c, t |-> [kind |-> "RowExtend", Row |-> r.t, Labels |-> l.m]]

ClearInstantiationLookup(c) == [c EXCEPT !.InstLookup = <<>>]
ClearRecursiveInstantiationLookup(c) == [c EXCEPT !.RecInstLookup = <<>>]

\* CommonContext.Instantiate
Instantiate(c, level, t) ==
    IF ~IsGeneric(c, t) THEN [c |-> c, t |-> t]
    ELSE LET r == visitInstantiate(c, level, t)
         IN [c |-> ClearRecursiveInstantiationLookup(ClearInstantiationLookup(r.c)),
             t |-> r.t]

\* ------------------------------------------------------------ instantiate.go

\* The *types.Var case of commonContext.visitInstantiate.
commonVisitInstantiateVar(c, level, t) ==
    IF t.id \in DOMAIN c.instLookup THEN [c |-> c, t |-> c.instLookup[t.id]]
    ELSE LET n == VarTrackerNew(c, level)
             tv == n.t
             c1 == IF c.vars[t.id].weak THEN SetWeak(n.c, tv) ELSE n.c
             constraints2 == [i \in 1..Len(c.vars[t.id].constraints) |->
                                 c.vars[t.id].constraints[i]]
             c2 == SetConstraints(c1, tv, constraints2)
         IN [c |-> [c2 EXCEPT !.instLookup = (t.id :> tv) @@ @], t |-> tv]

RECURSIVE commonVisitInstantiate(_, _, _)
RECURSIVE commonVisitArgs(_, _, _, _)
RECURSIVE commonVisitLabels(_, _, _, _, _)
RECURSIVE commonVisitRecTypes(_, _, _, _)

\* for i, arg := range t.Args { ... }; also lb.Set(i, visit(t)) for every entry
\* of a label's type list.
commonVisitArgs(c, level, ts, i) ==
    IF i > Len(ts) THEN [c |-> c, ts |-> ts]
    ELSE LET r == commonVisitInstantiate(c, level, ts[i])
         IN commonVisitArgs(r.c, level, [ts EXCEPT ![i] = r.t], i + 1)

commonVisitLabels(c, level, m, mb, i) ==
    IF i > Len(m) THEN [c |-> c, m |-> mb]
    ELSE LET r == commonVisitArgs(c, level, m[i].Types, 1)
         IN commonVisitLabels(r.c, level, m, MapSetAt(mb, i, r.ts), i + 1)

commonVisitRecTypes(c, level, next, i) ==
    IF i > Len(c.recs[next].Types) THEN c
    ELSE LET r == commonVisitInstantiate(c, level, c.recs[next].Types[i])
         IN commonVisitRecTypes([r.c EXCEPT !.recs[next].Types[i] = r.t], level, next, i + 1)

commonVisitInstantiate(c, level, t) ==
    IF ~IsGeneric(c, t) THEN [c |-> c, t |-> t]
    ELSE CASE t.kind = "Var" -> commonVisitInstantiateVar(c, level, t)
      [] t.kind = "RecursiveLink" ->
            LET rec == c.recs[t.Recursive] IN
            IF rec.Id \in DOMAIN c.recInstLookup
            THEN [c |-> c, t |-> TRecursiveLink(c.recInstLookup[rec.Id], t.Index)]
            ELSE LET next == Len(c.recs) + 1
                     c1 == [c EXCEPT !.recs = Append(@, [rec EXCEPT !.Instantiated = TRUE]),
                                     !.recInstLookup = (rec.Id :> next) @@ @]
                     c2 == commonVisitRecTypes(c1, level, next, 1)
                 IN [c |-> [c2 EXCEPT !.recs[next].ContainsGenericVars = FALSE],
                     t |-> TRecursiveLink(next, t.Index)]
      [] t.kind = "App" ->
            LET a == commonVisitArgs(c, level, t.Args, 1)
                u == IF t.Underlying # NilType
                     THEN commonVisitInstantiate(a.c, level, t.Underlying)
                     ELSE [c |-> a.c, t |-> NilType]
                k == commonVisitInstantiate(u.c, level, t.Const)
            IN [c |-> k.c,
                t |-> [kind |-> "App", Const |-> k.t, Args |-> a.ts, Underlying |-> u.t]]
      [] t.kind = "Arrow" ->
            LET a == commonVisitArgs(c, level, t.Args, 1)
                r == commonVisitInstantiate(a.c, level, t.Return)
            IN [c |-> r.c,
                t |-> [kind |-> "Arrow", Args |-> a.ts, Return |-> r.t, Method |-> t.Method]]
      [] t.kind = "Method" ->
            StampMethod(c, commonVisitInstantiate(c, level, c.Methods[t.Name]), t)
      [] t.kind = "Record" ->
            LET r == commonVisitInstantiate(c, level, t.Row) IN [c |-> r.c, t |-> TRecord(r.t)]
      [] t.kind = "Variant" ->
            LET r == commonVisitInstantiate(c, level, t.Row) IN [c |-> r.c, t |-> TVariant(r.t)]
      [] t.kind = "RowExtend" ->
            LET l == commonVisitLabels(c, level, t.Labels, t.Labels, 1)
                r == IF t.Row = NilType THEN [c |-> l.c, t |-> RowEmptyPointer]
                     ELSE IF t.Row.kind # "RowEmpty"
                          THEN commonVisitInstantiate(l.c, level, t.Row)
                          ELSE [c |-> l.c, t |-> t.Row]
            IN [c |-> r.c, t |-> [kind |-> "RowExtend", Row |-> r.t, Labels |-> l.m]]

clearInstantiationLookup(c) == [c EXCEPT !.instLookup = <<>>]
clearRecursiveInstantiationLookup(c) == [c EXCEPT !.recInstLookup = <<>>]

\* commonContext.instantiate
instantiate(c, level, t) ==
    IF ~IsGeneric(c, t) THEN [c |-> c, t |-> t]
    ELSE commonVisitInstantiate(
             clearRecursiveInstantiationLookup(clearInstantiationLookup(c)), level, t)

\* ------------------------------------------------------ environment and stash

NoErr == ""

\* TypeEnv: a partial map from names to types.
Lookup(env, name) == IF name \in DOMAIN env THEN env[name] ELSE NilType
EnvAssign(c, name, t) == [c EXCEPT !.env = (name :> t) @@ @]
EnvRemove(c, name) == [c EXCEPT !.env = [k \in DOMAIN @ \ {name} |-> @[k]]]

\* Stash saves the existing binding of name, if any, on EnvStash and returns
\* the number of entries pushed.
Stash(c, name) ==
    IF name \in DOMAIN c.env
    THEN [c |-> [c EXCEPT !.EnvStash = Append(@, [Name |-> name, Type |-> c.env[name]])],
          n |-> 1]
    ELSE [c |-> c, n |-> 0]

\* Unstash pops the last count entries, newest first, and assigns each back.
RECURSIVE Unstash(_, _)
Unstash(c, count) ==
    IF count <= 0 \/ Len(c.EnvStash) = 0 THEN c
    ELSE LET top == c.EnvStash[Len(c.EnvStash)]
             c1 == EnvAssign(c, top.Name, top.Type)
         IN Unstash([c1 EXCEPT !.EnvStash = SubSeq(@, 1, Len(@) - 1)], count - 1)

\* ------------------------------------------------------------------ row ops

\* The order of labels in a label map.
LabelOrder == <<"a", "b", "x", "y">>
LabelRank(l) == CHOOSE i \in 1..Len(LabelOrder) : LabelOrder[i] = l

MapHas(m, l) == \E i \in 1..Len(m) : m[i].Label = l
MapGet(m, l) == m[CHOOSE i \in 1..Len(m) : m[i].Label = l].Types

\* TypeMapBuilder.Set: the entry of label becomes ts (replacing an existing one).
MapSet(m, l, ts) ==
    IF MapHas(m, l)
    THEN [i \in 1..Len(m) |-> IF m[i].Label = l THEN LabelEntry(l, ts) ELSE m[i]]
    ELSE LET before == SelectSeq(m, LAMBDA e : LabelRank(e.Label) < LabelRank(l))
             after == SelectSeq(m, LAMBDA e : LabelRank(e.Label) > LabelRank(l))
         IN before \o <<LabelEntry(l, ts)>> \o after

\* Merging two label maps: the lists of a label present in both are
\* concatenated, the outer row's types first.
RECURSIVE MapMerge(_, _, _)
MapMerge(outer, inner, i) ==
    IF i > Len(inner) THEN outer
    ELSE LET l == inner[i].Label
             ts == IF MapHas(outer, l) THEN MapGet(outer, l) \o inner[i].Types
                   ELSE inner[i].Types
         IN MapMerge(MapSet(outer, l, ts), inner, i + 1)

\* FlattenRowType: collects the labels of a chain of row extensions, following
\* links; the rest is the empty row or a variable.
RECURSIVE FlattenRowType(_, _)
FlattenRowType(c, t) ==
    LET r == RealType(c, t) IN
    IF r.kind = "RowExtend"
    THEN LET f == FlattenRowType(c, r.Row)
         IN [labels |-> MapMerge(r.Labels, f.labels, 1), rest |-> f.rest, err |-> f.err]
    ELSE IF r.kind \in {"RowEmpty", "Var"}
         THEN [labels |-> <<>>, rest |-> r, err |-> NoErr]
         ELSE [labels |-> <<>>, rest |-> r, err |-> "Not a row type"]

\* ---------------------------------------------------------------- unifier

RECURSIVE occursAdjustLevels(_, _, _)
RECURSIVE occursAdjustList(_, _, _, _)
RECURSIVE occursAdjustLabels(_, _, _, _)

occursAdjustList(c, id, ts, i) ==
    IF i > Len(ts) THEN [c |-> c, err |-> NoErr]
    ELSE LET r == occursAdjustLevels(c, id, ts[i])
         IN IF r.err # NoErr THEN r ELSE occursAdjustList(r.c, id, ts, i + 1)

occursAdjustLabels(c, id, m, i) ==
    IF i > Len(m) THEN [c |-> c, err |-> NoErr]
    ELSE LET r == occursAdjustList(c, id, m[i].Types, 1)
         IN IF r.err # NoErr THEN r ELSE occursAdjustLabels(r.c, id, m, i + 1)

\* Occurs check of the unbound variable id in t, lowering the level of every
\* unbound variable of t to the level of id and, when id is weak, making it weak.
occursAdjustLevels(c, id, t) ==
    CASE t.kind = "Var" ->
            LET v == c.vars[t.id] IN
            IF v.state = "link" THEN occursAdjustLevels(c, id, v.link)
            ELSE IF v.state = "generic" THEN [c |-> c, err |-> "Generic variable in unification"]
            ELSE IF t.id = id THEN [c |-> c, err |-> "Implicitly recursive types are not supported"]
            ELSE [c |-> [c EXCEPT !.vars[t.id].level =
                                      IF @ > c.vars[id].level THEN c.vars[id].level ELSE @,
                                  !.vars[t.id].weak = @ \/ c.vars[id].weak],
                  err |-> NoErr]
      [] t.kind = "App" ->
            LET a == occursAdjustList(c, id, t.Args, 1) IN
            IF a.err # NoErr THEN a
            ELSE LET k == occursAdjustLevels(a.c, id, t.Const) IN
                 IF k.err # NoErr \/ t.Underlying = NilType THEN k
                 ELSE occursAdjustLevels(k.c, id, t.Underlying)
      [] t.kind = "Arrow" ->
            LET a == occursAdjustList(c, id, t.Args, 1) IN
            IF a.err # NoErr THEN a ELSE occursAdjustLevels(a.c, id, t.Return)
      [] t.kind \in {"Record", "Variant"} -> occursAdjustLevels(c, id, t.Row)
      [] t.kind = "RowExtend" ->
            LET a == occursAdjustLabels(c, id, t.Labels, 1) IN
            IF a.err # NoErr THEN a ELSE occursAdjustLevels(a.c, id, t.Row)
      [] OTHER -> [c |-> c, err |-> NoErr]

\* A size-restricted variable unifies only with a size or a size-restricted variable.
SizeAllowed(c, b) ==
    \/ b.kind = "Size"
    \/ (b.kind = "Var" /\ c.vars[b.id].size)
    \/ (b.kind = "App" /\ b.Underlying # NilType /\ RealType(c, b.Underlying).kind = "Size")

\* Unifying the unbound variable a with the type b (links already followed).
unifyVar(c, a, b) ==
    LET o == occursAdjustLevels(c, a.id, b) IN
    IF o.err # NoErr THEN o
    ELSE IF c.vars[a.id].size /\ ~SizeAllowed(o.c, b)
         THEN [c |-> o.c, err |-> "Failed to unify size variable"]
         ELSE LET c1 == IF b.kind = "Var"
                        THEN [o.c EXCEPT !.vars[b.id].constraints =
                                             @ \o c.vars[a.id].constraints]
                        ELSE o.c
              IN [c |-> [c1 EXCEPT !.vars[a.id].state = "link", !.vars[a.id].link = b],
                  err |-> NoErr]

\* The labels of m1 that m2 lacks (whole entries), in label order.
MapMissing(m1, m2) == SelectSeq(m1, LAMBDA e : ~MapHas(m2, e.Label))

RECURSIVE Unify(_, _, _)
RECURSIVE unifyLists(_, _, _, _)
RECURSIVE unifySharedLabels(_, _, _, _)
RECURSIVE unifyRows(_, _, _)

unifyLists(c, as, bs, i) ==
    IF i > Len(as) \/ i > Len(bs) THEN [c |-> c, err |-> NoErr]
    ELSE LET r == Unify(c, as[i], bs[i])
         IN IF r.err # NoErr THEN r ELSE unifyLists(r.c, as, bs, i + 1)

\* For each label of both maps, unify the two type lists in order.
unifySharedLabels(c, m1, m2, i) ==
    IF i > Len(m1) THEN [c |-> c, err |-> NoErr]
    ELSE IF ~MapHas(m2, m1[i].Label) THEN unifySharedLabels(c, m1, m2, i + 1)
    ELSE LET ts1 == m1[i].Types
             ts2 == MapGet(m2, m1[i].Label)
         IN IF Len(ts1) # Len(ts2)
            THEN [c |-> c, err |-> "Failed to unify rows: scoped label length mismatch"]
            ELSE LET r == unifyLists(c, ts1, ts2, 1)
                 IN IF r.err # NoErr THEN r ELSE unifySharedLabels(r.c, m1, m2, i + 1)

unifyRows(c, a, b) ==
    LET f1 == FlattenRowType(c, a)
        f2 == FlattenRowType(c, b)
    IN
    IF f1.err # NoErr THEN [c |-> c, err |-> f1.err]
    ELSE IF f2.err # NoErr THEN [c |-> c, err |-> f2.err]
    ELSE
    LET s == unifySharedLabels(c, f1.labels, f2.labels, 1)
        only1 == MapMissing(f1.labels, f2.labels)
        only2 == MapMissing(f2.labels, f1.labels)
    IN
    IF s.err # NoErr THEN s
    ELSE IF Len(only1) = 0 /\ Len(only2) = 0 THEN Unify(s.c, f1.rest, f2.rest)
    ELSE IF Len(only1) = 0
         THEN Unify(s.c, f1.rest, [kind |-> "RowExtend", Row |-> f2.rest, Labels |-> only2])
    ELSE IF Len(only2) = 0
         THEN Unify(s.c, [kind |-> "RowExtend", Row |-> f1.rest, Labels |-> only1], f2.rest)
    ELSE IF f1.rest.kind = "RowEmpty"
         THEN Unify(s.c, f1.rest, [kind |-> "RowExtend", Row |-> f2.rest, Labels |-> only2])
    ELSE LET n == VarTrackerNew(s.c, s.c.vars[f1.rest.id].level)
             u1 == Unify(n.c, f2.rest, [kind |-> "RowExtend", Row |-> n.t, Labels |-> only1])
         IN IF u1.err # NoErr THEN u1
            ELSE IF ~IsUnboundVar(u1.c, f1.rest)
                 THEN [c |-> u1.c, err |-> "Recursive row types are not supported"]
                 ELSE Unify(u1.c, f1.rest,
                            [kind |-> "RowExtend", Row |-> n.t, Labels |-> only2])

Unify(c, a0, b0) ==
    LET a == RealType(c, a0)
        b == RealType(c, b0)
        mismatch == [c |-> c, err |-> "Failed to unify " \o a.kind \o " with " \o b.kind]
    IN
    IF a = b /\ a.kind \in {"Var", "Unit", "Const", "Size", "RowEmpty", "RecursiveLink"}
    THEN [c |-> c, err |-> NoErr]
    ELSE IF IsUnboundVar(c, a) THEN unifyVar(c, a, b)
    ELSE IF IsUnboundVar(c, b) THEN unifyVar(c, b, a)
    ELSE IF a.kind # b.kind THEN mismatch
    ELSE CASE a.kind = "Const" ->
                [c |-> c, err |-> "Failed to unify " \o a.Name \o " with " \o b.Name]
      [] a.kind = "App" ->
            LET k == Unify(c, a.Const, b.Const)
                viaUnderlying ==
                    IF a.Underlying # NilType /\ b.Underlying # NilType
                    THEN Unify(c, a.Underlying, b.Underlying)
                    ELSE k
            IN IF k.err # NoErr THEN viaUnderlying
               ELSE IF Len(a.Args) # Len(b.Args)
                    THEN [c |-> k.c, err |-> "Failed to unify: parameter count mismatch"]
                    ELSE unifyLists(k.c, a.Args, b.Args, 1)
      [] a.kind = "Arrow" ->
            IF Len(a.Args) # Len(b.Args)
            THEN [c |-> c, err |-> "Failed to unify: argument count mismatch"]
            ELSE LET r == unifyLists(c, a.Args, b.Args, 1)
                 IN IF r.err # NoErr THEN r ELSE Unify(r.c, a.Return, b.Return)
      [] a.kind \in {"Record", "Variant"} -> Unify(c, a.Row, b.Row)
      [] a.kind = "RowExtend" -> unifyRows(c, a, b)
      [] OTHER -> mismatch

\* ------------------------------------------------------------ generalization

RECURSIVE Generalize(_, _, _)
RECURSIVE generalizeList(_, _, _, _)
RECURSIVE generalizeLabels(_, _, _, _)

generalizeList(c, level, ts, i) ==
    IF i > Len(ts) THEN [c |-> c, ts |-> ts]
    ELSE LET r == Generalize(c, level, ts[i])
         IN generalizeList(r.c, level, [ts EXCEPT ![i] = r.t], i + 1)

generalizeLabels(c, level, m, i) ==
    IF i > Len(m) THEN [c |-> c, m |-> m]
    ELSE LET r == generalizeList(c, level, m[i].Types, 1)
         IN generalizeLabels(r.c, level, MapSetAt(m, i, r.ts), i + 1)

\* GeneralizeAtLevel: every unbound variable of t that is neither weak nor
\* size-restricted and whose level exceeds level becomes generic; the type is
\* returned with its links followed.
Generalize(c, level, t) ==
    CASE t.kind = "Var" ->
            LET v == c.vars[t.id] IN
            IF v.state = "link" THEN Generalize(c, level, v.link)
            ELSE IF v.state = "unbound" /\ v.level > level /\ ~v.weak /\ ~v.size
                 THEN [c |-> [c EXCEPT !.vars[t.id].state = "generic"], t |-> t]
                 ELSE [c |-> c, t |-> t]
      [] t.kind = "App" ->
            LET a == generalizeList(c, level, t.Args, 1)
                k == Generalize(a.c, level, t.Const)
                u == IF t.Underlying # NilType THEN Generalize(k.c, level, t.Underlying)
                     ELSE [c |-> k.c, t |-> NilType]
            IN [c |-> u.c,
                t |-> [kind |-> "App", Const |-> k.t, Args |-> a.ts, Underlying |-> u.t]]
      [] t.kind = "Arrow" ->
            LET a == generalizeList(c, level, t.Args, 1)
                r == Generalize(a.c, level, t.Return)
            IN [c |-> r.c, t |-> [t EXCEPT !.Args = a.ts, !.Return = r.t]]
      [] t.kind \in {"Record", "Variant"} ->
            LET r == Generalize(c, level, t.Row) IN [c |-> r.c, t |-> [t EXCEPT !.Row = r.t]]
      [] t.kind = "RowExtend" ->
            LET l == generalizeLabels(c, level, t.Labels, 1)
                r == Generalize(l.c, level, t.Row)
            IN [c |-> r.c, t |-> [t EXCEPT !.Labels = l.m, !.Row = r.t]]
      [] OTHER -> [c |-> c, t |-> t]

\* ------------------------------------------------------------- expressions
\* An expression is a record tagged by "kind".  A node of the walked tree is
\* identified by its path from the root: the sequence of child positions.

\* ast.Literal as a value; Construct describes the user's callback.
AstLiteral(syntax, using, constructType) ==
    [kind |-> "Literal", Syntax |-> syntax, Using |-> using, Construct |-> constructType]
\* construct.Literal
Literal(syntax, usingVars, constructType) ==
    [kind |-> "Literal", Syntax |-> syntax, Using |-> <<>>, Construct |-> constructType]
Var(name) == [kind |-> "Var", Name |-> name]
Deref(ref) == [kind |-> "Deref", Ref |-> ref]
DerefAssign(ref, value) == [kind |-> "DerefAssign", Ref |-> ref, Value |-> value]
Call(f, args) == [kind |-> "Call", Func |-> f, Args |-> args]
Func(args, body) == [kind |-> "Func", ArgNames |-> args, Body |-> body]
Pipe(as, sequence) ==
    [kind |-> "Pipe", Source |-> sequence[1], As |-> as,
     Sequence |-> SubSeq(sequence, 2, Len(sequence))]
Let(varName, value, body) == [kind |-> "Let", Var |-> varName, Value |-> value, Body |-> body]
LetBinding(varName, value) == [Var |-> varName, Value |-> value]
LetGroup(vars, body) == [kind |-> "LetGroup", Vars |-> vars, Body |-> body]
RecordEmpty == [kind |-> "RecordEmpty"]
RecordSelect(record, label) == [kind |-> "RecordSelect", Record |-> record, Label |-> label]
RecordRestrict(record, label) == [kind |-> "RecordRestrict", Record |-> record, Label |-> label]
LabelValue(label, value) == [Label |-> label, Value |-> value]
RecordExtend(record, labels) ==
    [kind |-> "RecordExtend", Record |-> IF record = NilType THEN RecordEmpty ELSE record,
     Labels |-> labels]
Variant(label, value) == [kind |-> "Variant", Label |-> label, Value |-> value]
MatchCase(label, varName, value) == [Label |-> label, Var |-> varName, Value |-> value]
NoDefault == [Label |-> "", Var |-> "", Value |-> NilType]
Match(value, cases, defaultCase) ==
    [kind |-> "Match", Value |-> value, Cases |-> cases, Default |-> defaultCase]

\* The callbacks a literal may carry: one returning a fixed type, one failing,
\* one returning the tuple of the types it was handed.
ConstructType(t) == [kind |-> "type", t |-> t]
ConstructFail == [kind |-> "fail", t |-> NilType]
ConstructUsing == [kind |-> "using", t |-> NilType]
CallConstruct(f, using) ==
    CASE f.kind = "type" -> [t |-> f.t, err |-> NoErr]
      [] f.kind = "using" -> [t |-> TApp(TConst("tuple"), using), err |-> NoErr]
      [] OTHER -> [t |-> NilType, err |-> "literal construction failed"]

\* ------------------------------------------------------------- SCC analysis

\* The closure of the node set S under pre (pre[i]: the nodes i depends on).
RECURSIVE Upstream(_, _)
Upstream(pre, S) ==
    LET S2 == S \cup UNION {pre[i] : i \in S}
    IN IF S2 = S THEN S ELSE Upstream(pre, S2)

SameSCC(pre, i) == {j \in Upstream(pre, {i}) : i \in Upstream(pre, {j})}

Min(S) == CHOOSE i \in S : \A j \in S : i <= j

RECURSIVE Ascending(_)
Ascending(S) == IF S = {} THEN <<>> ELSE <<Min(S)>> \o Ascending(S \ {Min(S)})

\* The strongly connected components of 1..n, each after the components it
\* depends on.
RECURSIVE Components(_, _, _)
Components(pre, n, done) ==
    IF done = 1..n THEN <<>>
    ELSE LET ready == {i \in (1..n) \ done :
                          Upstream(pre, {i}) \ SameSCC(pre, i) \subseteq done}
             i == Min(ready)
         IN <<Ascending(SameSCC(pre, i))>> \o Components(pre, n, done \cup SameSCC(pre, i))

RECURSIVE FreeVars(_)
RECURSIVE FreeVarsOfValues(_, _)
FreeVarsOfValues(es, i) ==
    IF i > Len(es) THEN {} ELSE FreeVars(es[i].Value) \cup FreeVarsOfValues(es, i + 1)

\* The names an expression refers to that it does not bind itself.
FreeVars(e) ==
    CASE e.kind = "Var" -> {e.Name}
      [] e.kind = "Literal" -> {e.Using[i] : i \in 1..Len(e.Using)}
      [] e.kind = "Deref" -> FreeVars(e.Ref)
      [] e.kind = "DerefAssign" -> FreeVars(e.Ref) \cup FreeVars(e.Value)
      [] e.kind = "Pipe" ->
            FreeVars(e.Source) \cup
            (UNION {FreeVars(e.Sequence[i]) : i \in 1..Len(e.Sequence)} \ {e.As})
      [] e.kind = "Let" ->
            (IF e.Value.kind = "Func" THEN FreeVars(e.Value) \ {e.Var} ELSE FreeVars(e.Value))
            \cup (FreeVars(e.Body) \ {e.Var})
      [] e.kind = "LetGroup" ->
            (FreeVarsOfValues(e.Vars, 1) \cup FreeVars(e.Body))
            \ {e.Vars[i].Var : i \in 1..Len(e.Vars)}
      [] e.kind = "Func" -> FreeVars(e.Body) \ {e.ArgNames[i] : i \in 1..Len(e.ArgNames)}
      [] e.kind = "Call" ->
            FreeVars(e.Func) \cup UNION {FreeVars(e.Args[i]) : i \in 1..Len(e.Args)}
      [] e.kind \in {"RecordSelect", "RecordRestrict"} -> FreeVars(e.Record)
      [] e.kind = "RecordExtend" -> FreeVars(e.Record) \cup FreeVarsOfValues(e.Labels, 1)
      [] e.kind = "Variant" -> FreeVars(e.Value)
      [] e.kind = "Match" ->
            FreeVars(e.Value)
            \cup UNION {FreeVars(e.Cases[i].Value) \ {e.Cases[i].Var} : i \in 1..Len(e.Cases)}
            \cup (IF e.Default = NoDefault THEN {}
                  ELSE FreeVars(e.Default.Value) \ {e.Default.Var})
      [] e.kind = "ControlFlow" ->
            UNION {UNION {FreeVars(e.Blocks[b].Sequence[i]) :
                             i \in 1..Len(e.Blocks[b].Sequence)} : b \in 1..Len(e.Blocks)}
            \ {e.Locals[i] : i \in 1..Len(e.Locals)}
      [] OTHER -> {}

\* analysis.SCC for a LetGroup: binding i depends on binding j when the value of
\* i refers to the name of j.
LetGroupSCC(e) ==
    LET pre == [i \in 1..Len(e.Vars) |->
                   {j \in 1..Len(e.Vars) : e.Vars[j].Var \in FreeVars(e.Vars[i].Value)}]
    IN Components(pre, Len(e.Vars), {})

\* Blocks of a control-flow graph are numbered from the entry block; the
\* return block follows it.
ControlFlowEntryIndex == 0
ControlFlowReturnIndex == 1
Block(index, sequence) == [Index |-> index, Sequence |-> sequence]
ControlFlow(name, locals, blocks, jumps) ==
    [kind |-> "ControlFlow", Name |-> name, Locals |-> locals, Blocks |-> blocks,
     Jumps |-> jumps]

\* e.HasJump(from, to), on block indexes.
HasJump(e, from, to) == <<from, to>> \in e.Jumps

\* e.Validate: every block is reached from the entry block and reaches the
\* return block; the components of the jump graph, each after the components
\* that jump into it.
Validate(e) ==
    LET n == Len(e.Blocks)
        pre == [b \in 1..n |-> {a \in 1..n : HasJump(e, a - 1, b - 1)}]
        succ == [a \in 1..n |-> {b \in 1..n : HasJump(e, a - 1, b - 1)}]
        ok == /\ n >= 2
              /\ \A b \in 1..n : (ControlFlowEntryIndex + 1) \in Upstream(pre, {b})
              /\ \A b \in 1..n : (ControlFlowReturnIndex + 1) \in Upstream(succ, {b})
    IN IF ok THEN [sccs |-> Components(pre, n, {}), err |-> NoErr]
       ELSE [sccs |-> <<>>, err |-> "Invalid control flow"]


\* ---------------------------------------------------------- inference driver

NilExpr == <<0>>

R(c, ret, err) == [c |-> c, ret |-> ret, err |-> err]

\* ti.invalid, ti.err = e, err
SetInvalid(c, p, err) ==
    [c EXCEPT !.invalid = p, !.err = err,
              !.trace = Append(@, [ev |-> "record", p |-> p, kind |-> "", err |-> err,
                                   t |-> NilType])]

\* e.SetType(t), in annotation mode only.
SetType(c, p, t) == IF c.annotate THEN [c EXCEPT !.annot = (p :> t) @@ @] ELSE c

\* if ti.annotate { arrow, _ := ft.(*types.Arrow); e.SetFuncType(arrow) }
SetFuncType(c, p, ft) ==
    IF c.annotate
    THEN [c EXCEPT !.annotFunc = (p :> (IF ft.kind = "Arrow" THEN ft ELSE NilType)) @@ @]
    ELSE c

\* The walk's history: the nodes entered and left (with the type and the error
\* returned) and the writes of the (invalid, err) slot, in order.
Event(ev, p, kind, err, t) == [ev |-> ev, p |-> p, kind |-> kind, err |-> err, t |-> t]
Enter(c, p, kind) == [c EXCEPT !.trace = Append(@, Event("enter", p, kind, NoErr, NilType))]
Exit(r, p, kind) == [r EXCEPT !.c.trace = Append(@, Event("exit", p, kind, r.err, r.ret))]

\* Sequencing: the result v of one step, handed to the rest of the routine.
Bind(v, K(_)) == K(v)

\* VarTracker.NewList: n fresh variables at level, in allocation order.
RECURSIVE NewList(_, _, _)
NewList(c, level, n) ==
    IF n = 0 THEN [c |-> c, ts |-> <<>>]
    ELSE Bind(NewList(c, level, n - 1), LAMBDA r :
         Bind(VarTrackerNew(r.c, level), LAMBDA v :
         [c |-> v.c, ts |-> Append(r.ts, v.t)]))

\* Literal: the types of the variables named in e.Using, or the first unbound name.
RECURSIVE LookupUsing(_, _, _)
LookupUsing(env, names, i) ==
    IF i > Len(names) THEN [using |-> <<>>, missing |-> ""]
    ELSE IF Lookup(env, names[i]) = NilType THEN [using |-> <<>>, missing |-> names[i]]
    ELSE Bind(LookupUsing(env, names, i + 1), LAMBDA r :
         [using |-> <<Lookup(env, names[i])>> \o r.using, missing |-> r.missing])

\* matchFuncType
RECURSIVE matchFuncType(_, _, _)
matchFuncType(c, argc, t) ==
    CASE t.kind = "Arrow" ->
            IF Len(t.Args) # argc
            THEN R(c, t, "Unexpected number of arguments for applied function")
            ELSE R(c, t, NoErr)
      [] t.kind = "Var" ->
            IF IsLinkVar(c, t) THEN matchFuncType(c, argc, c.vars[t.id].link)
            ELSE IF IsUnboundVar(c, t)
            THEN Bind(NewList(c, c.vars[t.id].level, argc + 1), LAMBDA l :
                 Bind(TArrow(SubSeq(l.ts, 1, argc), l.ts[argc + 1]), LAMBDA arrow :
                 R([l.c EXCEPT !.vars[t.id].state = "link", !.vars[t.id].link = arrow],
                   arrow, NoErr)))
            ELSE R(c, NilType, "Type variable for applied function has not been instantiated")
      [] OTHER -> R(c, NilType, "Unexpected type " \o t.kind \o " for applied function")

\* Func: for each argument name, stash, then bind the name to its variable.
RECURSIVE BindArgs(_, _, _, _, _)
BindArgs(c, names, tvs, i, stashed) ==
    IF i > Len(names) THEN [c |-> c, n |-> stashed]
    ELSE Bind(Stash(c, names[i]), LAMBDA s :
         BindArgs(EnvAssign(s.c, names[i], tvs[i]), names, tvs, i + 1, stashed + s.n))

\* for _, name := range names { env.Remove(name) }
RECURSIVE RemoveNames(_, _, _)
RemoveNames(c, names, i) ==
    IF i > Len(names) THEN c ELSE RemoveNames(EnvRemove(c, names[i]), names, i + 1)

\* GeneralizeAtLevel applied to a nil type (the type a failed step returned):
\* the build either passes the nil through or panics.
RECURSIVE HasNil(_)
HasNil(t) ==
    \/ t = NilType
    \/ (t.kind = "Arrow" /\ HasNil(t.Return))

\* env.Assign(name, GeneralizeAtLevel(level, t))
AssignUngeneralized(c, name, level, t) == EnvAssign(c, name, t)
AssignGeneralized(c, name, level, t) ==
    Bind(Generalize(c, level, t), LAMBDA g : EnvAssign(g.c, name, g.t))

\* Let, from the binding of e.Var on: infer the body in the new scope and
\* restore the parent scope.
LetBodyExit(r, e, stashed) ==
    IF r.c.panic THEN r ELSE R(Unstash(EnvRemove(r.c, e.Var), stashed), r.ret, r.err)

\* tv := ti.common.VarTracker.New(level); tv.SetWeak()
NewNonWeak(c, level) == VarTrackerNew(c, level)
NewWeak(c, level) ==
    Bind(VarTrackerNew(c, level), LAMBDA n : [c |-> SetWeak(n.c, n.t), t |-> n.t])

RECURSIVE infer(_, _, _, _)
RECURSIVE inferExpr(_, _, _, _)
RECURSIVE inferPipeSteps(_, _, _, _, _, _)
RECURSIVE inferCallArgs(_, _, _, _, _, _)
RECURSIVE inferExtendLabels(_, _, _, _, _, _)
RECURSIVE inferCases(_, _, _, _, _, _, _, _)
RECURSIVE inferSCCValues(_, _, _, _, _, _, _, _)
RECURSIVE inferSCCs(_, _, _, _, _, _, _)
RECURSIVE inferBlock(_, _, _, _, _, _, _, _)
RECURSIVE inferCycle(_, _, _, _, _, _)
RECURSIVE inferComponents(_, _, _, _, _, _, _, _)

infer(c, level, e, p) ==
    IF c.panic THEN R(c, NilType, "panic")
    ELSE Exit(inferExpr(Enter(c, p, e.kind), level, e, p), p, e.kind)

\* for _, step := range e.Sequence { env.Assign(e.As, GeneralizeAtLevel(level, t));
\*                                   t, err = ti.infer(env, level, step) }
inferPipeSteps(c, level, e, p, i, prev) ==
    IF i > Len(e.Sequence) THEN prev
    ELSE IF HasNil(prev.ret) /\ c.nilPanics
         THEN R([c EXCEPT !.panic = TRUE], NilType, "panic")
    ELSE Bind(infer(AssignGeneralized(c, e.As, level, prev.ret), level, e.Sequence[i],
                    p \o <<1 + i>>), LAMBDA r :
         IF r.c.panic THEN r ELSE inferPipeSteps(r.c, level, e, p, i + 1, r))

\* for i, arg := range e.Args { infer arg; unify args[i] with it }
inferCallArgs(c, level, e, p, i, args) ==
    IF i > Len(e.Args) THEN R(c, NilType, NoErr)
    ELSE Bind(infer(c, level, e.Args[i], p \o <<1 + i>>), LAMBDA r :
         IF r.err # NoErr THEN R(r.c, NilType, r.err)
         ELSE Bind(Unify(r.c, args[i], r.ret), LAMBDA u :
              IF u.err # NoErr THEN R(SetInvalid(u.c, p, u.err), NilType, u.err)
              ELSE inferCallArgs(u.c, level, e, p, i + 1, args)))

\* splitRecord: unify { label : labelType | rowType } with the type of recordExpr.
splitRecord(c, level, e, p) ==
    Bind(VarTrackerNew(c, level), LAMBDA n1 :
    Bind(VarTrackerNew(n1.c, level), LAMBDA n2 :
    Bind(infer(n2.c, level, e.Record, p \o <<1>>), LAMBDA r :
    IF r.err # NoErr
    THEN [c |-> r.c, label |-> NilType, rest |-> NilType, err |-> r.err]
    ELSE Bind(Unify(r.c, TRecord([kind |-> "RowExtend", Row |-> n1.t,
                                  Labels |-> SingletonTypeMap(e.Label, n2.t)]), r.ret),
              LAMBDA u :
         IF u.err # NoErr
         THEN [c |-> u.c, label |-> NilType, rest |-> NilType, err |-> u.err]
         ELSE [c |-> u.c, label |-> n2.t, rest |-> TRecord(n1.t), err |-> NoErr]))))

\* RecordExtend: for _, label := range e.Labels { infer label.Value;
\*                                   mb.Set(label.Label, SingletonTypeList(t)) }
inferExtendLabels(c, level, e, p, i, mb) ==
    IF i > Len(e.Labels) THEN [c |-> c, m |-> mb, err |-> NoErr]
    ELSE Bind(infer(c, level, e.Labels[i].Value, p \o <<i>>), LAMBDA r :
         IF r.err # NoErr THEN [c |-> r.c, m |-> mb, err |-> r.err]
         ELSE inferExtendLabels(r.c, level, e, p, i + 1,
                                MapSet(mb, e.Labels[i].Label, SingletonTypeList(r.ret))))

\* inferCases: the cases are visited from the last to the first; tvs are the
\* variables of NewList, handed out in visiting order.
inferCases(c, level, retType, rowType, cases, p, i, tvs) ==
    IF i < 1 THEN R(c, rowType, NoErr)
    ELSE Bind(Stash(c, cases[i].Var), LAMBDA s :
         Bind(infer(EnvAssign(s.c, cases[i].Var, tvs[Len(cases) - i + 1]), level,
                    cases[i].Value, p \o <<1 + i>>), LAMBDA r :
         IF r.c.panic THEN r
         ELSE Bind(Unstash(EnvRemove(r.c, cases[i].Var), s.n), LAMBDA c1 :
              IF r.err # NoErr THEN R(c1, NilType, r.err)
              ELSE Bind(Unify(c1, retType, r.ret), LAMBDA u :
                   IF u.err # NoErr THEN R(u.c, NilType, u.err)
                   ELSE inferCases(u.c, level, retType,
                                   [kind |-> "RowExtend", Row |-> rowType,
                                    Labels |-> SingletonTypeMap(cases[i].Label,
                                                                tvs[Len(cases) - i + 1])],
                                   cases, p, i - 1, tvs)))))

\* LetGroup: `for i := 0; i < stashed; i++ { existing := EnvStash[len-(1+i)] ... }`:
\* the newest of the last `stashed` stash entries that holds name, if any.
StashedIndex(c, name, stashed) ==
    LET n == Len(c.EnvStash)
        hits == {i \in 0..(stashed - 1) : i < n /\ c.EnvStash[n - i].Name = name}
    IN IF hits = {} THEN 0 ELSE n - Min(hits)

\* To prevent self-references within non-function types, stash/remove the
\* type-variable.
KeepOwnName(c, name, stashed) == c
HideOwnName(c, name, stashed) ==
    IF StashedIndex(c, name, stashed) # 0
    THEN EnvAssign(c, name, c.EnvStash[StashedIndex(c, name, stashed)].Type)
    ELSE EnvRemove(c, name)

\* LetGroup: add fresh type-variables for the bindings of a component.
RECURSIVE BindSCC(_, _, _, _, _, _)
BindSCC(c, e, scc, tvs, i, stashed) ==
    IF i > Len(scc) THEN [c |-> c, n |-> stashed]
    ELSE Bind(Stash(c, e.Vars[scc[i]].Var), LAMBDA s :
         BindSCC(EnvAssign(s.c, e.Vars[scc[i]].Var, tvs[i]), e, scc, tvs, i + 1,
                 stashed + s.n))

\* LetGroup: bind each name of a component to its generalized type.
RECURSIVE GeneralizeSCC(_, _, _, _, _, _)
GeneralizeSCC(c, level, e, scc, tvs, i) ==
    IF i > Len(scc) THEN c
    ELSE GeneralizeSCC(AssignGeneralized(c, e.Vars[scc[i]].Var, level, tvs[i]), level, e,
                       scc, tvs, i + 1)

\* LetGroup: infer the values of a component's bindings.
inferSCCValues(c, level, e, p, scc, tvs, i, stashed) ==
    IF i > Len(scc) THEN R(c, NilType, NoErr)
    ELSE Bind(e.Vars[scc[i]], LAMBDA v :
         Bind(infer(IF v.Value.kind = "Func" THEN c ELSE HideOwnName(c, v.Var, stashed),
                    level + 1, v.Value, p \o <<scc[i]>>), LAMBDA r :
         IF r.err # NoErr THEN R(r.c, NilType, r.err)
         ELSE Bind(Unify(r.c, tvs[i], r.ret), LAMBDA u :
              IF u.err # NoErr THEN R(SetInvalid(u.c, p, u.err), NilType, u.err)
              ELSE inferSCCValues(IF v.Value.kind = "Func" THEN u.c
                                  ELSE EnvAssign(u.c, v.Var, tvs[i]),
                                  level, e, p, scc, tvs, i + 1, stashed))))

\* LetGroup: for _, scc := range sccs { ... }; ret carries `stashed`.
inferSCCs(c, level, e, p, sccs, k, stashed) ==
    IF k > Len(sccs) THEN R(c, stashed, NoErr)
    ELSE Bind(NewList(c, level + 1, Len(sccs[k])), LAMBDA l :
         Bind(BindSCC(l.c, e, sccs[k], l.ts, 1, stashed), LAMBDA b :
         Bind(inferSCCValues(b.c, level, e, p, sccs[k], l.ts, 1, b.n), LAMBDA r :
         IF r.err # NoErr THEN r
         ELSE inferSCCs(GeneralizeSCC(r.c, level, e, sccs[k], l.ts, 1), level, e, p,
                        sccs, k + 1, b.n))))

inferLetGroup(c, level, e, p) ==
    Bind(inferSCCs([c EXCEPT !.analyzed = TRUE, !.letGroupCount = @ + 1], level, e, p,
                   LetGroupSCC(e), 1, 0), LAMBDA s :
    IF s.err # NoErr THEN R(s.c, NilType, s.err)
    ELSE Bind(infer(s.c, level, e.Body, p \o <<Len(e.Vars) + 1>>), LAMBDA r :
         IF r.c.panic THEN r
         ELSE R(Unstash(RemoveNames(r.c, [i \in 1..Len(e.Vars) |-> e.Vars[i].Var], 1),
                        s.ret),
                r.ret, r.err)))

\* ControlFlow: bind each local to a fresh weak reference.
RECURSIVE BindLocals(_, _, _, _, _, _)
BindLocals(c, names, tvs, i, stashed, doStash) ==
    IF i > Len(names) THEN [c |-> c, n |-> stashed]
    ELSE Bind(IF doStash THEN Stash(c, names[i]) ELSE [c |-> c, n |-> 0], LAMBDA s :
         BindLocals(EnvAssign(SetWeak(s.c, tvs[i]), names[i], TRef(tvs[i])),
                    names, tvs, i + 1, stashed + s.n, doStash))

\* for i, name := range e.Locals { env.Assign(name, refs[i]) }
RECURSIVE AssignLocals(_, _, _, _)
AssignLocals(c, names, tvs, i) ==
    IF i > Len(names) THEN c
    ELSE AssignLocals(EnvAssign(c, names[i], TRef(tvs[i])), names, tvs, i + 1)

\* for i, ref := range refs { unify ref with tmpRefs[i] }
RECURSIVE UnifyRefs(_, _, _, _)
SkipUnifyRefs(c, tvs, tmp, i) == [c |-> c, err |-> NoErr]
UnifyRefs(c, tvs, tmp, i) ==
    IF i > Len(tvs) THEN [c |-> c, err |-> NoErr]
    ELSE Bind(Unify(c, TRef(tvs[i]), TRef(tmp[i])), LAMBDA u :
         IF u.err # NoErr THEN u ELSE UnifyRefs(u.c, tvs, tmp, i + 1))

\* The last expression within the return block determines the return type.
IsLastOfBlock(e, b, i) == i = Len(e.Blocks[b].Sequence)
IsReturnValue(e, b, i) ==
    e.Blocks[b].Index = ControlFlowReturnIndex /\ i = Len(e.Blocks[b].Sequence)

\* The sub-expressions of block b (a position in e.Blocks) from the i-th on;
\* ret is the type of the return block's last sub-expression once inferred.
inferBlock(c, level, e, p, b, i, single, ret) ==
    IF i > Len(e.Blocks[b].Sequence) THEN R(c, ret, NoErr)
    ELSE Bind(infer(c, level, e.Blocks[b].Sequence[i], p \o <<b, i>>), LAMBDA r :
         IF r.err # NoErr THEN R(r.c, NilType, r.err)
         ELSE IF single /\ IsReturnValue(e, b, i)
              THEN inferBlock(SetType(r.c, p, r.ret), level, e, p, b, i + 1, single, r.ret)
              ELSE inferBlock(r.c, level, e, p, b, i + 1, single, ret))

\* for _, block := range cycle { for _, sub := range block.Sequence { ... } }
inferCycle(c, level, e, p, cycle, k) ==
    IF k > Len(cycle) THEN R(c, NilType, NoErr)
    ELSE Bind(inferBlock(c, level, e, p, cycle[k], 1, FALSE, NilType), LAMBDA r :
         IF r.err # NoErr THEN r ELSE inferCycle(r.c, level, e, p, cycle, k + 1))

\* for _, cycle := range sccs { ... }
inferComponents(c, level, e, p, sccs, k, tvs, ret) ==
    IF k > Len(sccs) THEN R(c, ret, NoErr)
    ELSE IF Len(sccs[k]) = 1 /\ ~HasJump(e, sccs[k][1] - 1, sccs[k][1] - 1)
         THEN Bind(inferBlock(c, level, e, p, sccs[k][1], 1, TRUE, ret), LAMBDA r :
              IF r.err # NoErr THEN r
              ELSE inferComponents(r.c, level, e, p, sccs, k + 1, tvs, r.ret))
         ELSE Bind(NewList(c, level, Len(e.Locals)), LAMBDA l :
              Bind(BindLocals(l.c, e.Locals, l.ts, 1, 0, FALSE), LAMBDA b :
              Bind(inferCycle(b.c, level, e, p, sccs[k], 1), LAMBDA r :
              IF r.err # NoErr THEN r
              ELSE Bind(UnifyRefs(r.c, tvs, l.ts, 1), LAMBDA u :
                   IF u.err # NoErr THEN R(SetInvalid(u.c, p, u.err), NilType, u.err)
                   ELSE inferComponents(AssignLocals(u.c, e.Locals, tvs, 1), level, e, p,
                                        sccs, k + 1, tvs, ret)))))

inferControlFlow(c, level, e, p) ==
    Bind(NewList(c, level, Len(e.Locals)), LAMBDA l :
    Bind(BindLocals(l.c, e.Locals, l.ts, 1, 0, TRUE), LAMBDA b :
    Bind(Validate(e), LAMBDA v :
    IF v.err # NoErr THEN R(SetInvalid(b.c, p, v.err), NilType, v.err)
    ELSE Bind(inferComponents(b.c, level, e, p, v.sccs, 1, l.ts, NilType), LAMBDA r :
         IF r.err # NoErr THEN R(r.c, NilType, r.err)
         ELSE Bind(Unstash(RemoveNames(r.c, e.Locals, 1), b.n), LAMBDA c1 :
              IF r.ret = NilType
              THEN R(SetInvalid(c1, p,
                         "Control flow must reach the return block and return a value"),
                     NilType, "Control flow must reach the return block and return a value")
              ELSE R(c1, r.ret, NoErr))))))

\* Match: the default case, if any: its variable is bound to the variant of a
\* fresh row variable tv while its value is inferred.
inferDefault(c, level, e, p, tv) ==
    IF e.Default = NoDefault
    THEN [c |-> c, retType |-> tv, rowType |-> RowEmptyPointer, err |-> NoErr]
    ELSE Bind(Stash(c, e.Default.Var), LAMBDA s :
         Bind(infer(EnvAssign(s.c, e.Default.Var, TVariant(tv)), level,
                    e.Default.Value, p \o <<Len(e.Cases) + 2>>), LAMBDA r :
         [c |-> IF r.c.panic THEN r.c
                ELSE Unstash(EnvRemove(r.c, e.Default.Var), s.n),
          retType |-> r.ret, rowType |-> tv, err |-> r.err]))

inferExpr(c, level, e, p) ==
    CASE e.kind = "Literal" ->
            Bind(LookupUsing(c.env, e.Using, 1), LAMBDA l :
            IF l.missing # "" THEN R(c, NilType, "Variable " \o l.missing \o " is not defined")
            ELSE Bind(CallConstruct(e.Construct, l.using), LAMBDA k :
                 IF k.err # NoErr THEN R(SetInvalid(c, p, k.err), k.t, k.err)
                 ELSE Bind(Instantiate(c, level, k.t), LAMBDA i :
                      R(SetType(i.c, p, i.t), i.t, NoErr))))
      [] e.kind = "Var" ->
            Bind(Lookup(c.env, e.Name), LAMBDA t :
            IF t = NilType
            THEN R(SetInvalid(c, p, "Variable " \o e.Name \o " is not defined"), NilType,
                   "Variable " \o e.Name \o " is not defined")
            ELSE Bind(Instantiate(c, level, t), LAMBDA i :
                 R(SetType(i.c, p, i.t), i.t, NoErr)))
      [] e.kind = "Deref" ->
            Bind(infer(c, level, e.Ref, p \o <<1>>), LAMBDA r :
            IF r.err # NoErr THEN R(r.c, NilType, r.err)
            ELSE Bind(NewWeak(r.c, level), LAMBDA n :
                 Bind(Unify(n.c, TRef(n.t), r.ret), LAMBDA u :
                 IF u.err # NoErr THEN R(SetInvalid(u.c, p, u.err), r.ret, u.err)
                 ELSE R(SetType(u.c, p, RealType(u.c, n.t)), RealType(u.c, n.t), NoErr))))
      [] e.kind = "DerefAssign" ->
            Bind(infer(c, level, e.Ref, p \o <<1>>), LAMBDA r :
            IF r.err # NoErr THEN r
            ELSE Bind(NewWeak(r.c, level), LAMBDA n :
                 Bind(Unify(n.c, TRef(n.t), r.ret), LAMBDA u :
                 IF u.err # NoErr THEN R(SetInvalid(u.c, p, u.err), r.ret, u.err)
                 ELSE Bind(infer(u.c, level, e.Value, p \o <<2>>), LAMBDA v :
                      IF v.err # NoErr THEN R(v.c, r.ret, v.err)
                      ELSE Bind(Unify(v.c, n.t, v.ret), LAMBDA w :
                           IF w.err # NoErr THEN R(SetInvalid(w.c, p, w.err), r.ret, w.err)
                           ELSE R(SetType(w.c, p, RealType(w.c, r.ret)),
                                  RealType(w.c, r.ret), NoErr))))))
      [] e.kind = "Pipe" ->
            Bind(infer(c, level + 1, e.Source, p \o <<1>>), LAMBDA r :
            IF r.err # NoErr THEN R(r.c, NilType, r.err)
            ELSE IF Len(e.Sequence) = 0 THEN R(SetType(r.c, p, r.ret), r.ret, NoErr)
            ELSE Bind(Stash(r.c, e.As), LAMBDA s :
                 Bind(inferPipeSteps(s.c, level, e, p, 1, R(s.c, r.ret, NoErr)), LAMBDA q :
                 IF q.c.panic THEN q
                 ELSE R(Unstash(EnvRemove(IF q.err # NoErr THEN SetType(q.c, p, q.ret)
                                          ELSE q.c, e.As), s.n),
                        q.ret, q.err))))
      [] e.kind = "Let" ->
            IF e.Value.kind = "Var"
            THEN Bind(Lookup(c.env, e.Value.Name), LAMBDA t :
                 IF t = NilType
                 THEN R(SetInvalid(c, p, "Variable " \o e.Value.Name \o " is not defined"), NilType,
                        "Variable " \o e.Value.Name \o " is not defined")
                 ELSE Bind(Stash(c, e.Var), LAMBDA s :
                      LetBodyExit(infer(EnvAssign(s.c, e.Var, t), level, e.Body, p \o <<2>>),
                                  e, s.n)))
            ELSE IF e.Value.kind # "Func"
            THEN Bind(infer(c, level + 1, e.Value, p \o <<1>>), LAMBDA v :
                 IF v.err # NoErr THEN R(v.c, NilType, v.err)
                 ELSE Bind(Stash(v.c, e.Var), LAMBDA s :
                      LetBodyExit(infer(AssignGeneralized(s.c, e.Var, level, v.ret), level,
                                        e.Body, p \o <<2>>),
                                  e, s.n)))
            ELSE Bind(VarTrackerNew(c, level + 1), LAMBDA n :
                 Bind(Stash(n.c, e.Var), LAMBDA s :
                 Bind(infer(EnvAssign(s.c, e.Var, n.t), level + 1, e.Value, p \o <<1>>),
                      LAMBDA v :
                 IF v.err # NoErr THEN R(v.c, NilType, v.err)
                 ELSE Bind(Unify(v.c, n.t, v.ret), LAMBDA u :
                      IF u.err # NoErr THEN R(SetInvalid(u.c, p, u.err), NilType, u.err)
                      ELSE LetBodyExit(infer(AssignGeneralized(u.c, e.Var, level, v.ret),
                                             level, e.Body, p \o <<2>>),
                                       e, s.n)))))
      [] e.kind = "Func" ->
            Bind(NewList(c, level, Len(e.ArgNames)), LAMBDA l :
            Bind(BindArgs(l.c, e.ArgNames, l.ts, 1, 0), LAMBDA b :
            Bind(infer(b.c, level, e.Body, p \o <<1>>), LAMBDA r :
            IF r.c.panic THEN r
            ELSE R(SetType(Unstash(RemoveNames(r.c, e.ArgNames, 1), b.n), p,
                           TArrow(l.ts, r.ret)),
                   TArrow(l.ts, r.ret), r.err))))
      [] e.kind = "Call" ->
            Bind(infer(c, level, e.Func, p \o <<1>>), LAMBDA f :
            IF f.err # NoErr THEN R(f.c, NilType, f.err)
            ELSE Bind(matchFuncType(f.c, Len(e.Args), f.ret), LAMBDA m :
                 IF m.err # NoErr THEN R(SetInvalid(m.c, p, m.err), NilType, m.err)
                 ELSE Bind(inferCallArgs(m.c, level, e, p, 1, m.ret.Args), LAMBDA a :
                      IF a.err # NoErr THEN a
                      ELSE R(SetType(SetFuncType(a.c, p, f.ret), p, m.ret.Return),
                             m.ret.Return, NoErr))))
      [] e.kind = "ControlFlow" -> inferControlFlow(c, level, e, p)
      [] e.kind = "LetGroup" -> inferLetGroup(c, level, e, p)
      [] e.kind = "RecordEmpty" ->
            R(SetType(c, p, TRecord(RowEmptyPointer)), TRecord(RowEmptyPointer), NoErr)
      [] e.kind = "RecordSelect" ->
            Bind(splitRecord(c, level, e, p), LAMBDA r :
            IF r.err # NoErr THEN R(SetInvalid(r.c, p, r.err), NilType, r.err)
            ELSE R(r.c, r.label, NoErr))
      [] e.kind = "RecordRestrict" ->
            Bind(splitRecord(c, level, e, p), LAMBDA r :
            IF r.err # NoErr THEN R(SetInvalid(r.c, p, r.err), NilType, r.err)
            ELSE R(r.c, r.rest, NoErr))
      [] e.kind = "RecordExtend" ->
            Bind(inferExtendLabels(c, level, e, p, 1, <<>>), LAMBDA l :
            IF l.err # NoErr THEN R(l.c, NilType, l.err)
            ELSE Bind(VarTrackerNew(l.c, level), LAMBDA n :
                 Bind(infer(n.c, level, e.Record, p \o <<Len(e.Labels) + 1>>), LAMBDA r :
                 IF r.err # NoErr THEN R(r.c, NilType, r.err)
                 ELSE Bind(Unify(r.c, TRecord(n.t), r.ret), LAMBDA u :
                      IF u.err # NoErr THEN R(SetInvalid(u.c, p, u.err), NilType, u.err)
                      ELSE Bind(FlattenRowType(u.c, [kind |-> "RowExtend", Row |-> n.t,
                                                     Labels |-> l.m]), LAMBDA f :
                           IF f.err # NoErr
                           THEN R(SetInvalid(u.c, p, f.err), NilType, f.err)
                           ELSE R(SetType(u.c, p, TRecord([kind |-> "RowExtend",
                                                           Row |-> f.rest,
                                                           Labels |-> f.labels])),
                                  TRecord([kind |-> "RowExtend", Row |-> f.rest,
                                           Labels |-> f.labels]),
                                  NoErr))))))
      [] e.kind = "Variant" ->
            Bind(VarTrackerNew(c, level), LAMBDA n1 :
            Bind(VarTrackerNew(n1.c, level), LAMBDA n2 :
            Bind(infer(n2.c, level, e.Value, p \o <<1>>), LAMBDA r :
            IF r.err # NoErr THEN R(r.c, NilType, r.err)
            ELSE Bind(Unify(r.c, n2.t, r.ret), LAMBDA u :
                 IF u.err # NoErr THEN R(SetInvalid(u.c, p, u.err), NilType, u.err)
                 ELSE R(u.c, TVariant([kind |-> "RowExtend", Row |-> n1.t,
                                       Labels |-> SingletonTypeMap(e.Label, n2.t)]),
                        NoErr)))))
      [] e.kind = "Match" ->
            Bind(VarTrackerNew(c, level), LAMBDA n :
            Bind(inferDefault(n.c, level, e, p, n.t), LAMBDA d :
            IF d.err # NoErr THEN R(d.c, NilType, d.err)
            ELSE Bind(infer(d.c, level, e.Value, p \o <<1>>), LAMBDA m :
                 IF m.err # NoErr THEN R(m.c, NilType, m.err)
                 ELSE Bind(NewList(m.c, level, Len(e.Cases)), LAMBDA l :
                      Bind(inferCases(l.c, level, d.retType, d.rowType, e.Cases, p,
                                      Len(e.Cases), l.ts), LAMBDA k :
                      IF k.err # NoErr THEN R(k.c, NilType, k.err)
                      ELSE Bind(Unify(k.c, m.ret, TVariant(k.ret)), LAMBDA u :
                           IF u.err # NoErr
                           THEN R(SetInvalid(u.c, p, u.err), NilType, u.err)
                           ELSE R(SetType(u.c, p, d.retType), d.retType, NoErr)))))))
      [] OTHER ->
            R(SetInvalid(c, p, "Unhandled expression type"), NilType, "Unhandled expression type")

\* ------------------------------------------------------------------ the state

VARIABLES
    vars,            \* VarTracker: the cell of every type variable, by id
    recs,            \* the recursive type groups, by position of allocation
    Methods,         \* the method table of the type class
    InstLookup,      \* typeutil.CommonContext.InstLookup
    RecInstLookup,   \* typeutil.CommonContext.RecInstLookup
    instLookup,      \* poly.commonContext.instLookup
    recInstLookup,   \* poly.commonContext.recInstLookup
    env,             \* TypeEnv.Types
    EnvStash,        \* CommonContext.EnvStash
    invalid,         \* InferenceContext.invalid
    err,             \* InferenceContext.err
    annot,           \* the types set on expressions, by path
    annotFunc,       \* the function types set on calls, by path
    nilPanics,       \* whether this build's GeneralizeAtLevel panics on a nil type
    calls,           \* top-level calls made so far
    last             \* the last top-level call: its inputs, the state it started
                     \* from and what it returned

state == <<vars, recs, Methods, InstLookup, RecInstLookup, instLookup, recInstLookup,
           env, EnvStash, invalid, err, annot, annotFunc, nilPanics, calls, last>>

\* The context a top-level call starts from.
Ctx(annotate) ==
    [vars |-> vars, recs |-> recs, Methods |-> Methods,
     InstLookup |-> InstLookup, RecInstLookup |-> RecInstLookup,
     instLookup |-> instLookup, recInstLookup |-> recInstLookup,
     env |-> env, EnvStash |-> EnvStash, invalid |-> invalid, err |-> err,
     annot |-> annot, annotFunc |-> annotFunc, annotate |-> annotate,
     trace |-> <<>>, analyzed |-> FALSE, letGroupCount |-> 0,
     panic |-> FALSE, nilPanics |-> nilPanics]

\* The state a top-level call leaves behind.
Leaves(c) ==
    /\ vars' = c.vars
    /\ recs' = c.recs
    /\ Methods' = c.Methods
    /\ InstLookup' = c.InstLookup
    /\ RecInstLookup' = c.RecInstLookup
    /\ instLookup' = c.instLookup
    /\ recInstLookup' = c.recInstLookup
    /\ env' = c.env
    /\ EnvStash' = c.EnvStash
    /\ invalid' = c.invalid
    /\ err' = c.err
    /\ annot' = c.annot
    /\ annotFunc' = c.annotFunc
    /\ calls' = calls + 1
    /\ UNCHANGED nilPanics

NoCall == [op |-> "none"]

\* The variables every behaviour starts with: 1 and 2 generic, 3 generic and
\* weak, 4 generic and size-restricted, 5 generic and constrained, 6 unbound.
GenericCell == [NewVarCell(0) EXCEPT !.state = "generic"]
InitVars ==
    <<GenericCell, GenericCell,
      [GenericCell EXCEPT !.weak = TRUE],
      [GenericCell EXCEPT !.size = TRUE],
      [GenericCell EXCEPT !.constraints = <<"Show">>],
      NewVarCell(0)>>

\* Two recursive groups over the generic variable 1: list[a] = cons(a, list[a]),
\* and the mutually recursive tree[a] = node(a, forest[a]) and
\* forest[a] = trees(tree[a], list[a]), whose second member links to both groups.
InitRecs ==
    <<[Id |-> 1, Types |-> <<TApp(TConst("list"), <<TVar(1), TRecursiveLink(1, 1)>>)>>,
       ContainsGenericVars |-> TRUE, Instantiated |-> FALSE],
      [Id |-> 2, Types |-> <<TApp(TConst("tree"), <<TVar(1), TRecursiveLink(2, 2)>>),
                             TApp(TConst("forest"),
                                  <<TRecursiveLink(2, 1), TRecursiveLink(1, 1)>>)>>,
       ContainsGenericVars |-> TRUE, Instantiated |-> FALSE]>>

\* A type class with a method over the class parameter and one that does not
\* mention it.
InitMethods ==
    [show |-> TArrow(<<TVar(5)>>, TConst("string")),
     zero |-> TArrow(<<TInt>>, TInt)]

InitStore ==
    /\ vars = InitVars
    /\ recs = InitRecs
    /\ Methods = InitMethods
    /\ InstLookup = <<>>
    /\ RecInstLookup = <<>>
    /\ instLookup = <<>>
    /\ recInstLookup = <<>>
    /\ EnvStash = <<>>
    /\ invalid = NilExpr
    /\ err = NoErr
    /\ annot = <<>>
    /\ annotFunc = <<>>
    /\ calls = 0
    /\ last = NoCall

\* ------------------------------------------------------ inference behaviours

\* pair : forall a b. (a, b) -> pair[a, b];  x : int;  r : ref[int]
BaseEnv ==
    [pair |-> TArrow(<<TVar(1), TVar(2)>>, TApp(TConst("pair"), <<TVar(1), TVar(2)>>)),
     x |-> TInt,
     r |-> TRef(TInt)]

\* The same, with the names the expressions below bind already bound.
ShadowEnv ==
    [pair |-> TArrow(<<TVar(1), TVar(2)>>, TApp(TConst("pair"), <<TVar(1), TVar(2)>>)),
     x |-> TInt,
     r |-> TRef(TInt),
     f |-> TBool, y |-> TBool, p |-> TBool, g |-> TBool]

InitEnvs == {BaseEnv, ShadowEnv}

Lit1 == Literal("1", <<>>, ConstructType(TInt))
LitTrue == Literal("true", <<>>, ConstructType(TBool))
Pair(a, b) == Call(Var("pair"), <<a, b>>)

\* let id = fn (y) -> y in pair(id(1), id(true))
LetIdExpr ==
    Let("id", Func(<<"y">>, Var("y")),
        Pair(Call(Var("id"), <<Lit1>>), Call(Var("id"), <<LitTrue>>)))

\* (fn (id) -> pair(id(1), id(true)))(fn (y) -> y)
LambdaIdExpr ==
    Call(Func(<<"id">>, Pair(Call(Var("id"), <<Lit1>>), Call(Var("id"), <<LitTrue>>))),
         <<Func(<<"y">>, Var("y"))>>)

\* The smallest expressions: well-typed ones, an unbound variable, a literal
\* whose construction fails and one that uses an unbound variable.
Atoms ==
    {Lit1, LitTrue, Var("x"), Var("r"), Var("u"),
     Literal("bad", <<>>, ConstructFail),
     AstLiteral("tuple", <<"u">>, ConstructUsing)}

\* Literals over the callback that returns what it was handed, with bound,
\* unbound and generic names to use, built by the constructor and as plain
\* ast.Literal values.
UsingLists == {<<"x">>, <<"r", "x">>, <<"u">>, <<"x", "u">>, <<"pair">>}
LiteralExprs ==
    {Literal("tuple", uv, ConstructUsing) : uv \in UsingLists}
    \cup {AstLiteral("tuple", uv, ConstructUsing) : uv \in UsingLists}

\* Values whose inference succeeds or fails below the top.
Values ==
    Atoms \cup
    {Deref(Var("r")), Deref(Var("x")), Func(<<"y">>, Var("y")), Func(<<"y">>, Var("u")),
     RecordExtend(RecordEmpty, <<LabelValue("a", Lit1)>>),
     Variant("a", Lit1)}

\* Every kind of expression over the atoms and values.
Composites ==
    {Deref(a) : a \in Atoms}
    \cup {DerefAssign(a, b) : a \in {Var("r"), Var("x"), Var("u")}, b \in Values}
    \cup {Func(<<"y">>, a) : a \in Values}
    \cup {Func(<<"x", "y">>, a) : a \in Atoms}
    \cup {Call(Func(<<"y">>, a), <<b>>) : a \in {Var("y"), Deref(Var("y")), Var("u")},
                                          b \in Values}
    \cup {Call(a, <<Lit1>>) : a \in Atoms}
    \cup {Let("f", a, b) : a \in Values, b \in {Var("f"), Var("u"), Lit1}}
    \cup {Let("x", a, Var("x")) : a \in Values}
    \cup {Pipe("p", <<a, b, Var("p")>>) : a \in Atoms, b \in Values}
    \cup {Pipe("p", <<Var("x"), b, c>>) : b \in Atoms, c \in Atoms \cup {Var("p")}}
    \cup {Pipe("p", <<Var("x"), DerefAssign(Var("r"), Let("f", Func(<<"y">>, a), Lit1)),
                      Var("p")>>) : a \in Atoms}
    \cup {RecordSelect(a, "a") : a \in Values}
    \cup {RecordRestrict(a, "a") : a \in Values}
    \cup {RecordExtend(a, <<LabelValue("a", b)>>) :
             a \in {RecordEmpty, Var("u"), Var("x")}, b \in Atoms}
    \cup {RecordExtend(RecordEmpty, <<LabelValue("a", a), LabelValue("b", b)>>) :
             a \in Atoms, b \in {Lit1, Var("u")}}
    \cup {Variant("a", a) : a \in Values}
    \cup {Match(Variant("a", Lit1), <<MatchCase("a", "y", a), MatchCase("b", "g", b)>>,
                NoDefault) : a \in Atoms \cup {Var("y")}, b \in {Lit1, LitTrue, Var("u")}}
    \cup {Match(a, <<MatchCase("a", "y", Var("y"))>>, MatchCase("", "g", b)) :
             a \in {Variant("a", Lit1), Var("x"), Var("u")}, b \in {Lit1, LitTrue, Var("u")}}
    \cup {LetGroup(<<LetBinding("f", Func(<<"y">>, Call(Var("g"), <<a>>))),
                     LetBinding("g", Func(<<"y">>, b))>>, c) :
             a \in {Var("y"), Var("u")}, b \in {Var("y"), Call(Var("f"), <<Var("y")>>), Var("u")},
             c \in {Call(Var("f"), <<Lit1>>), Var("u")}}
    \cup {LetGroup(<<LetBinding("f", a)>>, Var("f")) : a \in Values}
    \cup {ControlFlow("loop", <<"p">>,
                      <<Block(0, <<DerefAssign(Var("p"), a)>>), Block(1, <<b>>)>>, J) :
             a \in {Lit1, LitTrue, Var("u")}, b \in {Deref(Var("p")), Lit1, Var("u")},
             J \in {{<<0, 1>>}, {<<0, 0>>, <<0, 1>>}, {}}}
    \cup {[kind |-> "Unknown"]}

\* Calls whose callee is a function parameter: its type is an unbound variable
\* at the first call and a variable linked to an arrow at the second.
CallExprs ==
    {Func(<<"y">>, Call(Var("y"), <<Lit1>>)),
     Func(<<"y">>, Pair(Call(Var("y"), <<Lit1>>), Call(Var("y"), <<Lit1>>))),
     Call(Func(<<"y">>, Call(Var("y"), <<Lit1>>)), <<Func(<<"y">>, Var("y"))>>)}

\* Pipes whose last step fails after its reference was inferred.
PipeExprs ==
    {Pipe("p", <<Var("r"), DerefAssign(Var("p"), LitTrue)>>),
     Pipe("p", <<Var("x"), Deref(Var("p"))>>),
     Pipe("p", <<Var("r"), Deref(Var("p"))>>),
     Pipe("p", <<Var("x")>>)}

\* Records with a label supplied twice: in one extension, and in two nested ones.
RecordExprs ==
    {RecordExtend(RecordEmpty, <<LabelValue("a", Lit1), LabelValue("a", LitTrue)>>),
     RecordExtend(RecordExtend(RecordEmpty, <<LabelValue("a", Lit1)>>),
                  <<LabelValue("a", LitTrue)>>),
     RecordExtend(RecordExtend(RecordEmpty, <<LabelValue("a", Lit1)>>),
                  <<LabelValue("b", LitTrue), LabelValue("a", Var("x"))>>)}

\* Control-flow graphs over one local p: entry block 0, return block 1 and a
\* third block 2; an empty return block, a return block inside a cycle, a loop
\* between entry and return that uses p at the entry's type or at another.
Flow(entry, loop, ret, J) ==
    ControlFlow("flow", <<"p">>, <<Block(0, entry), Block(1, ret), Block(2, loop)>>, J)
FlowExprs ==
    {ControlFlow("flow", <<"p">>, <<Block(0, <<DerefAssign(Var("p"), Lit1)>>), Block(1, ret)>>,
                 J) :
        ret \in {<<>>, <<Deref(Var("p"))>>, <<LitTrue, Deref(Var("p"))>>},
        J \in {{<<0, 1>>}, {<<0, 1>>, <<1, 0>>}, {<<0, 1>>, <<1, 1>>}}}
    \cup {Flow(<<DerefAssign(Var("p"), a)>>, <<DerefAssign(Var("p"), b)>>, <<c>>, J) :
             a \in {Lit1, LitTrue}, b \in {Lit1, LitTrue, Var("u")},
             c \in {Deref(Var("p")), DerefAssign(Var("p"), LitTrue)},
             J \in {{<<0, 2>>, <<2, 2>>, <<2, 1>>}, {<<0, 2>>, <<2, 1>>},
                    {<<0, 2>>, <<2, 0>>, <<2, 1>>}}}

\* fn (y) -> *y, bound by a Let, a LetGroup or a Pipe and then applied to a
\* reference to an int and to a reference to a bool; the same with the
\* identity in its place; and a ControlFlow returning the content of a local
\* that is never assigned.
DerefFn == Func(<<"y">>, Deref(Var("y")))
RefBoolLit == Literal("refbool", <<>>, ConstructType(TRef(TBool)))
MonoUses(f) == Pair(Call(Var(f), <<Var("r")>>), Call(Var(f), <<RefBoolLit>>))
UnassignedLocal ==
    ControlFlow("flow", <<"p">>,
                <<Block(0, <<Deref(Var("p"))>>), Block(1, <<Deref(Var("p"))>>)>>, {<<0, 1>>})
WeakExprs ==
    UNION {{Let("f", v, b), LetGroup(<<LetBinding("f", v)>>, b)} :
              v \in {DerefFn, Func(<<"y">>, Var("y")), UnassignedLocal},
              b \in {MonoUses("f"), Var("f")}}
    \cup {Pipe("p", <<v, b>>) : v \in {DerefFn, Func(<<"y">>, Var("y")), UnassignedLocal},
                                b \in {MonoUses("p"), Var("p")}}

\* Groups with a non-function binding whose value is its own name, alone or
\* after another binding; and a component of a non-function binding x and a
\* function h that refer to each other.
SelfRef(name) == LetBinding(name, Var(name))
MutualXH ==
    LetGroup(<<LetBinding("x", Call(Var("h"), <<Lit1>>)),
               LetBinding("h", Func(<<"y">>, Var("x")))>>, Var("x"))
GroupExprs ==
    UNION {{LetGroup(<<SelfRef(n)>>, Var(n)), LetGroup(<<SelfRef(n)>>, Lit1)} :
              n \in {"x", "g"}}
    \cup {LetGroup(<<LetBinding("f", Func(<<"y">>, Var("y"))), SelfRef(n)>>, Var("f")) :
             n \in {"x", "g"}}
    \cup {MutualXH}

Exprs ==
    Atoms \cup Composites \cup {LetIdExpr, LambdaIdExpr} \cup CallExprs \cup PipeExprs
          \cup RecordExprs \cup FlowExprs \cup WeakExprs \cup GroupExprs
          \cup LiteralExprs

Init ==
    /\ InitStore
    /\ env \in InitEnvs
    /\ nilPanics \in BOOLEAN

\* InferenceContext.Infer / Annotate: one top-level inference of e under the
\* environment, at level 0; a context serves one inference.
Infer(e, annotate) ==
    /\ calls = 0
    /\ \E r \in {infer(Ctx(annotate), 0, e, <<>>)} :
       /\ Leaves(r.c)
       /\ last' = [op |-> "infer", e |-> e, annotate |-> annotate, ret |-> r.ret,
                   err |-> r.err, panic |-> r.c.panic, trace |-> r.c.trace,
                   env |-> env, EnvStash |-> EnvStash, vars |-> vars]

Next == \E e \in Exprs, annotate \in BOOLEAN : Infer(e, annotate)

Spec == Init /\ [][Next]_state

\* ---------------------------------------------------- properties of inference

\* t with every linked variable replaced by what it is linked to.
RECURSIVE Resolved(_, _)
Resolved(vs, t) ==
    CASE t.kind = "Var" ->
            IF vs[t.id].state = "link" THEN Resolved(vs, vs[t.id].link) ELSE t
      [] t.kind = "App" ->
            [t EXCEPT !.Args = [i \in 1..Len(t.Args) |-> Resolved(vs, t.Args[i])]]
      [] t.kind = "Arrow" ->
            [t EXCEPT !.Args = [i \in 1..Len(t.Args) |-> Resolved(vs, t.Args[i])],
                      !.Return = Resolved(vs, t.Return)]
      [] OTHER -> t

Inferred == last.op = "infer"
Succeeded == Inferred /\ ~last.panic /\ last.err = NoErr
Failed == Inferred /\ ~last.panic /\ last.err # NoErr

\* The paths, in LetIdExpr, of the two uses of id.
FirstUse == <<2, 2, 1>>
SecondUse == <<2, 3, 1>>

\* C1: the let-bound identity is generalized, so inferring LetIdExpr succeeds
\* with pair[int, bool], the two uses of id having been instantiated with two
\* different fresh variables (one resolved to int, the other to bool); the
\* lambda-bound identity is not, so inferring LambdaIdExpr fails to unify int
\* with bool, and that failure is the one the context records.
C1_LetPolymorphism ==
    Inferred =>
        /\ last.e = LetIdExpr =>
              /\ Succeeded
              /\ Resolved(vars, last.ret) = TApp(TConst("pair"), <<TInt, TBool>>)
              /\ last.annotate =>
                    /\ annot[FirstUse].Args[1].id > Len(last.vars)
                    /\ annot[SecondUse].Args[1].id > Len(last.vars)
                    /\ annot[FirstUse].Args[1] # annot[SecondUse].Args[1]
                    /\ Resolved(vars, annot[FirstUse]) = TArrow(<<TInt>>, TInt)
                    /\ Resolved(vars, annot[SecondUse]) = TArrow(<<TBool>>, TBool)
        /\ last.e = LambdaIdExpr =>
              /\ Failed
              /\ last.err = "Failed to unify int with bool"
              /\ err = last.err

C1_Witness ==
    /\ Inferred
    /\ last.e = LetIdExpr
    /\ last.annotate
    /\ last.err = NoErr
    /\ Resolved(vars, last.ret) = TApp(TConst("pair"), <<TInt, TBool>>)

\* C2: when an inference returns without error, the environment maps the same
\* names to the same types as before the call and the stash is as it was.
C2_ScopeBalancedOnSuccess ==
    Succeeded => (env = last.env /\ EnvStash = last.EnvStash)

\* C3: when an inference returns an error, the environment maps the same
\* names to the same types as before the call and the stash is as it was.
C3_ScopeBalancedOnFailure ==
    Failed => (env = last.env /\ EnvStash = last.EnvStash)

\* C4: when an inference returns an error, the context's error slot holds that
\* error and its invalid slot holds an expression of the walked tree.
C4_EveryFailureRecorded ==
    Failed => (err = last.err /\ invalid # NilExpr)

\* The positions of the trace at which the (invalid, err) slot was written.
Recorded(tr) == {k \in 1..Len(tr) : tr[k].ev = "record"}
\* No expression starts being inferred between positions j and k: the error
\* recorded at j is still propagating outward at k.
Propagating(tr, j, k) == \A i \in (j + 1)..(k - 1) : tr[i].ev # "enter"

\* C5: once a failure has set the (invalid, err) slot, no enclosing expression
\* writes the slot again while that error propagates outward; after a failed
\* run the invalid slot is the expression the first write named.
C5_FirstFailureKept ==
    Inferred =>
        \A j, k \in Recorded(last.trace) :
            (j < k /\ Propagating(last.trace, j, k)) =>
                /\ last.trace[k].p = last.trace[j].p
                /\ last.trace[k].err = last.trace[j].err

Parent(p) == SubSeq(p, 1, Len(p) - 1)
\* Position k of the trace is the return of a failed child of a Pipe.
FailedPipeStep(tr, k) ==
    /\ tr[k].ev = "exit"
    /\ tr[k].err # NoErr
    /\ Len(tr[k].p) >= 1
    /\ \E i \in 1..k : tr[i].ev = "enter" /\ tr[i].kind = "Pipe" /\ tr[i].p = Parent(tr[k].p)

\* C6: when a step of a Pipe fails, no later step of that Pipe is inferred and
\* the Pipe returns that error.
C6_FailingStepAbortsPipe ==
    (Inferred /\ ~last.panic) =>
        \A k \in 1..Len(last.trace) :
            FailedPipeStep(last.trace, k) =>
                /\ \A j \in (k + 1)..Len(last.trace) :
                      ~ /\ last.trace[j].ev = "enter"
                        /\ Len(last.trace[j].p) = Len(last.trace[k].p)
                        /\ Parent(last.trace[j].p) = Parent(last.trace[k].p)
                /\ \E j \in (k + 1)..Len(last.trace) :
                      /\ last.trace[j].ev = "exit"
                      /\ last.trace[j].p = Parent(last.trace[k].p)
                      /\ last.trace[j].err = last.trace[k].err

\* The positions of the trace at which an expression of the given kind
\* returned without error.
Returned(tr, kind) ==
    {k \in 1..Len(tr) : tr[k].ev = "exit" /\ tr[k].kind = kind /\ tr[k].err = NoErr}

\* C11: in annotation mode, every Call that was inferred successfully has its
\* function-type slot set to an arrow (not nil), whatever the callee's inferred
\* type was: an arrow, or a variable resolved to one.
C11_CallFuncTypeSet ==
    (Inferred /\ last.annotate /\ ~last.panic) =>
        \A k \in Returned(last.trace, "Call") :
            /\ last.trace[k].p \in DOMAIN annotFunc
            /\ annotFunc[last.trace[k].p].kind = "Arrow"

\* The kinds of expression with a type slot of their own; a Let and a LetGroup
\* pass the type of their body through.
SlotKinds ==
    {"Literal", "Var", "Deref", "DerefAssign", "Pipe", "ControlFlow", "Func", "Call",
     "RecordEmpty", "RecordSelect", "RecordRestrict", "RecordExtend", "Variant", "Match"}

\* C12: in annotation mode, after a successful inference every visited
\* expression with a type slot (Pipe, Variant, RecordSelect and RecordRestrict
\* among them) has the type infer returned for it in its slot; after a failed
\* inference no expression that returned an error has a type in its slot.
C12_AnnotationComplete ==
    (Inferred /\ last.annotate /\ ~last.panic) =>
        /\ Succeeded =>
              \A k \in 1..Len(last.trace) :
                  (last.trace[k].ev = "exit" /\ last.trace[k].kind \in SlotKinds) =>
                      /\ last.trace[k].p \in DOMAIN annot
                      /\ annot[last.trace[k].p] = last.trace[k].t
        /\ Failed =>
              \A k \in 1..Len(last.trace) :
                  (last.trace[k].ev = "exit" /\ last.trace[k].err # NoErr) =>
                      \/ last.trace[k].p \notin DOMAIN annot
                      \/ annot[last.trace[k].p] = NilType

\* The type the expression at path p returned.
ExitType(tr, p) == tr[CHOOSE k \in 1..Len(tr) : tr[k].ev = "exit" /\ tr[k].p = p].t

\* The types of label l in a label map, none if the label is absent.
TypesOf(m, l) == IF MapHas(m, l) THEN MapGet(m, l) ELSE <<>>

\* The inferred types of the values a RecordExtend at the top supplies for
\* label l, in source order.
Supplied(l) ==
    LET idx == SelectSeq([i \in 1..Len(last.e.Labels) |-> i],
                         LAMBDA i : last.e.Labels[i].Label = l)
    IN [j \in 1..Len(idx) |-> Resolved(vars, ExitType(last.trace, <<idx[j]>>))]

\* The types the extended record already holds for label l.
Held(l) ==
    LET rec == ExitType(last.trace, <<Len(last.e.Labels) + 1>>)
        ts == TypesOf(FlattenRowType([vars |-> vars], rec.Row).labels, l)
    IN [j \in 1..Len(ts) |-> Resolved(vars, ts[j])]

\* C13: a RecordExtend that infers successfully returns a record whose row
\* holds, for each supplied label, the types of all the values supplied for
\* it in source order, followed by the types the extended record holds for it.
C13_ExtendKeepsEveryLabel ==
    (Succeeded /\ last.e.kind = "RecordExtend") =>
        \A i \in 1..Len(last.e.Labels) :
            LET l == last.e.Labels[i].Label
                ts == TypesOf(last.ret.Row.Labels, l)
            IN [j \in 1..Len(ts) |-> Resolved(vars, ts[j])] = Supplied(l) \o Held(l)

ReturnBlockErr == "Control flow must reach the return block and return a value"

\* The positions, in the blocks of e, of a return block that is inferred as a
\* value-yielding block: it is a component of its own of the validated graph,
\* does not jump to itself and has a last sub-expression.
ValueBlocks(e) ==
    {b \in 1..Len(e.Blocks) :
        /\ e.Blocks[b].Index = ControlFlowReturnIndex
        /\ e.Blocks[b].Sequence # <<>>
        /\ ~HasJump(e, b - 1, b - 1)
        /\ \E k \in 1..Len(Validate(e).sccs) : Validate(e).sccs[k] = <<b>>}

\* Every failure recorded during the run is the ControlFlow's own.
OnlyOwnFailure(tr) == \A k \in Recorded(tr) : tr[k].p = <<>>

\* C14: a ControlFlow whose inference succeeds returns the type inferred for
\* the last sub-expression of its return block; when the return block is not
\* inferred as a value-yielding block the inference fails, with the error
\* "Control flow must reach the return block and return a value" when the
\* graph is valid and nothing else failed.
C14_ControlFlowResult ==
    (Inferred /\ ~last.panic /\ last.e.kind = "ControlFlow") =>
        /\ Succeeded =>
              \E b \in ValueBlocks(last.e) :
                  last.ret = ExitType(last.trace, <<b, Len(last.e.Blocks[b].Sequence)>>)
        /\ ValueBlocks(last.e) = {} =>
              /\ Failed
              /\ last.ret = NilType
              /\ (Validate(last.e).err = NoErr /\ OnlyOwnFailure(last.trace)) =>
                     \/ last.err = ReturnBlockErr
                     \/ \E k \in Recorded(last.trace) : last.trace[k].err # ReturnBlockErr

\* A ControlFlow whose return block holds two sub-expressions of different
\* types has returned the type of the second.
C14_Witness ==
    /\ Succeeded
    /\ last.e.kind = "ControlFlow"
    /\ \E b \in ValueBlocks(last.e) :
          /\ Len(last.e.Blocks[b].Sequence) = 2
          /\ ExitType(last.trace, <<b, 1>>) # ExitType(last.trace, <<b, 2>>)
          /\ last.ret = ExitType(last.trace, <<b, 2>>)

\* The positions of the blocks of e that lie in a cyclic component: one of
\* several blocks, or a block that jumps to itself.
CyclicBlocks(e) ==
    {b \in 1..Len(e.Blocks) :
        \E k \in 1..Len(Validate(e).sccs) :
            /\ \E j \in 1..Len(Validate(e).sccs[k]) : Validate(e).sccs[k][j] = b
            /\ (Len(Validate(e).sccs[k]) > 1 \/ HasJump(e, b - 1, b - 1))}

\* The paths of the annotated uses of the local p as the reference of a Deref
\* or DerefAssign directly in block b.
UsesOfLocal(e, b) ==
    {q \in DOMAIN annot :
        /\ Len(q) = 3 /\ q[1] = b /\ q[3] = 1
        /\ q[2] \in 1..Len(e.Blocks[b].Sequence)
        /\ e.Blocks[b].Sequence[q[2]].kind \in {"Deref", "DerefAssign"}
        /\ e.Blocks[b].Sequence[q[2]].Ref = Var("p")}

\* Block b assigns a literal to p first, and block d a literal of another type.
AssignsLiteral(e, b) ==
    /\ Len(e.Blocks[b].Sequence) >= 1
    /\ e.Blocks[b].Sequence[1].kind = "DerefAssign"
    /\ e.Blocks[b].Sequence[1].Ref = Var("p")
    /\ e.Blocks[b].Sequence[1].Value \in {Lit1, LitTrue}
Mismatch(e, b, d) ==
    /\ AssignsLiteral(e, b) /\ AssignsLiteral(e, d)
    /\ e.Blocks[b].Sequence[1].Value # e.Blocks[d].Sequence[1].Value

\* The reference the local of a ControlFlow at the top is bound to at first:
\* the first variable allocated by the call.
OriginalRef == TRef(TVar(Len(last.vars) + 1))

\* C15: in a ControlFlow over the local p, the blocks of a cyclic component
\* see p bound to a second fresh weak reference and the other blocks see the
\* original reference, also after a cyclic component; when the inference
\* succeeds the second references have been unified with the original one;
\* and a local assigned one type inside a loop and another outside it makes
\* the inference fail.
C15_LoopConsistency ==
    (Inferred /\ ~last.panic /\ last.annotate /\ last.e.kind = "ControlFlow"
              /\ last.e.Locals = <<"p">> /\ Validate(last.e).err = NoErr) =>
        /\ \A b \in 1..Len(last.e.Blocks) : \A q \in UsesOfLocal(last.e, b) :
              IF b \in CyclicBlocks(last.e)
              THEN /\ annot[q] # OriginalRef
                   /\ annot[q].Args[1].kind = "Var"
                   /\ annot[q].Args[1].id > Len(last.vars) + 1
                   /\ vars[annot[q].Args[1].id].weak
                   /\ Succeeded => Resolved(vars, annot[q]) = Resolved(vars, OriginalRef)
              ELSE annot[q] = OriginalRef
        /\ \A b \in CyclicBlocks(last.e) :
              \A d \in (1..Len(last.e.Blocks)) \ CyclicBlocks(last.e) :
                  Mismatch(last.e, b, d) => Failed

\* A loop that assigns p the type the entry block assigned has been inferred,
\* and the return block after it has used p.
C15_Witness ==
    /\ Succeeded /\ last.annotate
    /\ last.e.kind = "ControlFlow"
    /\ Len(last.e.Blocks) = 3
    /\ CyclicBlocks(last.e) = {3}
    /\ UsesOfLocal(last.e, 1) # {}
    /\ UsesOfLocal(last.e, 2) # {}
    /\ UsesOfLocal(last.e, 3) # {}

\* The variables an inference turned generic.
Generalized ==
    {id \in 1..Len(vars) :
        /\ vars[id].state = "generic"
        /\ (id > Len(last.vars) \/ last.vars[id].state # "generic")}

\* The expression binds fn (y) -> *y and applies it at two content types.
UsesDerefFnTwice(e) ==
    \/ e = Let("f", DerefFn, MonoUses("f"))
    \/ e = LetGroup(<<LetBinding("f", DerefFn)>>, MonoUses("f"))
    \/ e = Pipe("p", <<DerefFn, MonoUses("p")>>)

ExitsAt(tr, p) == {k \in 1..Len(tr) : tr[k].ev = "exit" /\ tr[k].p = p}

\* A variable the run allocated.
IsFreshVar(t) == t.kind = "Var" /\ t.id > Len(last.vars)

\* The bindings of a LetGroup whose value is the binding's own name.
SelfRefs(e) == {i \in 1..Len(e.Vars) : e.Vars[i].Value = Var(e.Vars[i].Var)}

\* Bindings i and j of a LetGroup are in one component.
SameComponent(e, i, j) ==
    \E k \in 1..Len(LetGroupSCC(e)) :
        /\ \E a \in 1..Len(LetGroupSCC(e)[k]) : LetGroupSCC(e)[k][a] = i
        /\ \E a \in 1..Len(LetGroupSCC(e)[k]) : LetGroupSCC(e)[k][a] = j

\* The paths of the uses, in the function values of a LetGroup, of the name of
\* a function of the same component as a callee.
GroupCallees(e) ==
    {<<i, 1, 1>> : i \in {j \in 1..Len(e.Vars) :
                             /\ e.Vars[j].Value.kind = "Func"
                             /\ e.Vars[j].Value.Body.kind = "Call"
                             /\ e.Vars[j].Value.Body.Func.kind = "Var"
                             /\ \E k \in 1..Len(e.Vars) :
                                   /\ e.Vars[k].Value.kind = "Func"
                                   /\ e.Vars[k].Var = e.Vars[j].Value.Body.Func.Name
                                   /\ SameComponent(e, j, k)}}

\* C17: in a LetGroup, a non-function binding whose value is its own name
\* gets the type the name had before the group, or fails with the name
\* undefined when it had none; a function of the group that calls a function
\* of its component sees that function's fresh variable, not an outer binding;
\* and in MutualXH the function h, inferred after x, sees the fresh variable
\* of x again.
C17_NoSelfReference ==
    (Inferred /\ ~last.panic /\ last.e.kind = "LetGroup") =>
        /\ \A i \in SelfRefs(last.e) : \A k \in ExitsAt(last.trace, <<i>>) :
              IF last.e.Vars[i].Var \in DOMAIN last.env
              THEN /\ last.trace[k].err = NoErr
                   /\ last.trace[k].t = last.env[last.e.Vars[i].Var]
              ELSE /\ last.trace[k].err =
                          "Variable " \o last.e.Vars[i].Var \o " is not defined"
                   /\ Failed
        /\ \A q \in GroupCallees(last.e) : \A k \in ExitsAt(last.trace, q) :
              last.trace[k].err = NoErr /\ IsFreshVar(last.trace[k].t)
        /\ last.e = MutualXH =>
              /\ Succeeded
              /\ \A k \in ExitsAt(last.trace, <<2, 1>>) : IsFreshVar(last.trace[k].t)
              /\ ExitsAt(last.trace, <<2, 1>>) # {}

\* The value of a self-referring binding was inferred after a function of the
\* group, under an environment that bound the name before.
C17_Witness ==
    /\ Succeeded
    /\ last.e.kind = "LetGroup"
    /\ Len(last.e.Vars) = 2
    /\ 2 \in SelfRefs(last.e)
    /\ last.e.Vars[2].Var = "g"
    /\ ExitType(last.trace, <<2>>) = TBool

\* -------------------------------------------------- instantiation behaviours

\* The types handed to Instantiate, over the variables of InitVars: variables
\* and constants, arrows, applications and aliases, records whose label holds a
\* list of one to MaxList types (every mix of generic and non-generic
\* entries), such records as the result of an arrow over the same variables,
\* variants, methods and links to the recursive groups of InitRecs, alone and
\* two in one arrow.
InstAtoms == {TVar(i) : i \in 1..Len(InitVars)} \cup {TInt}
ListEntries == {TVar(1), TVar(2), TVar(6), TInt}
TypeLists == UNION {[1..n -> ListEntries] : n \in 1..MaxList}
InstTypes ==
    InstAtoms
    \cup {TArrow(<<a>>, b) : a \in InstAtoms, b \in {TVar(1), TVar(6), TInt}}
    \cup {TApp(TConst("list"), <<a>>) : a \in InstAtoms}
    \cup {TAlias(TApp(TConst("id"), <<a>>), b) : a, b \in {TVar(1), TInt}}
    \cup {TRecord(TRowExtend(r, <<LabelEntry("a", ts)>>)) :
             r \in {RowEmptyPointer, TVar(1), TVar(6)}, ts \in TypeLists}
    \cup {TArrow(<<a>>, TRecord(TRowExtend(RowEmptyPointer, <<LabelEntry("a", ts)>>))) :
             a \in {TVar(1), TVar(2)}, ts \in TypeLists}
    \cup {TVariant(TRowExtend(RowEmptyPointer,
                              <<LabelEntry("a", <<a>>), LabelEntry("b", <<b>>)>>)) :
             a, b \in {TVar(1), TVar(2), TInt}}
    \cup {TMethod("show"), TMethod("zero"), TRecursiveLink(1, 1),
          TArrow(<<TRecursiveLink(1, 1)>>, TVar(1))}
    \cup {TRecursiveLink(2, 1), TRecursiveLink(2, 2),
          TArrow(<<TRecursiveLink(1, 1)>>, TRecursiveLink(1, 1)),
          TArrow(<<TRecursiveLink(2, 1)>>, TRecursiveLink(2, 2)),
          TArrow(<<TRecursiveLink(2, 2)>>, TRecursiveLink(1, 1))}

InitInst ==
    /\ InitStore
    /\ env = BaseEnv
    /\ nilPanics = FALSE

\* What a top-level instantiation leaves in `last`: its inputs, the store it
\* started from, its result and the results of the calls before it.
InstCall(op, level, t, ret) ==
    [op |-> op, level |-> level, t |-> t, ret |-> ret,
     vars |-> vars, recs |-> recs, Methods |-> Methods,
     prev |-> IF last.op = "none" THEN <<>> ELSE Append(last.prev, last.ret)]

\* typeutil.CommonContext.Instantiate(level, t).  A behaviour instantiates one
\* scheme, repeatedly, through one of the two implementations.
TypeutilInstantiate(level, t) ==
    /\ calls < MaxCalls
    /\ last.op = "none" \/ (last.op = "Instantiate" /\ last.t = t)
    /\ LET r == Instantiate(Ctx(FALSE), level, t) IN
       /\ Leaves(r.c)
       /\ last' = InstCall("Instantiate", level, t, r.t)

\* poly.commonContext.instantiate(level, t)
PolyInstantiate(level, t) ==
    /\ calls < MaxCalls
    /\ last.op = "none" \/ (last.op = "instantiate" /\ last.t = t)
    /\ LET r == instantiate(Ctx(FALSE), level, t) IN
       /\ Leaves(r.c)
       /\ last' = InstCall("instantiate", level, t, r.t)

NextInst ==
    \E level \in 0..MaxLevel, t \in InstTypes :
        \/ TypeutilInstantiate(level, t)
        \/ PolyInstantiate(level, t)

SpecInst == InitInst /\ [][NextInst]_state

\* ------------------------------------------------ properties of instantiation

Instantiated == last.op \in {"Instantiate", "instantiate"}
\* The store the last call started from and the one it left.
Before == [vars |-> last.vars, recs |-> last.recs, Methods |-> last.Methods]
After == [vars |-> vars, recs |-> recs, Methods |-> Methods]

\* The ids of the variables that occur in t, through the groups of recursive
\* links and the arrows of methods.
RECURSIVE TypeVars(_, _, _)
TypeVars(st, t, seen) ==
    CASE t.kind = "Var" -> {t.id}
      [] t.kind = "App" ->
            UNION {TypeVars(st, t.Args[i], seen) : i \in 1..Len(t.Args)}
            \cup TypeVars(st, t.Const, seen)
            \cup (IF t.Underlying = NilType THEN {} ELSE TypeVars(st, t.Underlying, seen))
      [] t.kind = "Arrow" ->
            UNION {TypeVars(st, t.Args[i], seen) : i \in 1..Len(t.Args)}
            \cup TypeVars(st, t.Return, seen)
      [] t.kind = "Method" -> TypeVars(st, st.Methods[t.Name], seen)
      [] t.kind \in {"Record", "Variant"} -> TypeVars(st, t.Row, seen)
      [] t.kind = "RowExtend" ->
            UNION {UNION {TypeVars(st, t.Labels[i].Types[j], seen) :
                             j \in 1..Len(t.Labels[i].Types)} : i \in 1..Len(t.Labels)}
            \cup TypeVars(st, t.Row, seen)
      [] t.kind = "RecursiveLink" ->
            IF t.Recursive \in seen THEN {}
            ELSE UNION {TypeVars(st, st.recs[t.Recursive].Types[i],
                                 seen \cup {t.Recursive}) :
                           i \in 1..Len(st.recs[t.Recursive].Types)}
      [] OTHER -> {}

\* The pairs <<v, w>> such that the variable v stands at a position of t and
\* the variable w at the same position of r; t is read in the store b the call
\* started from, r in the store a it left.
RECURSIVE Corr(_, _, _, _, _)
Corr(b, a, t, r, seen) ==
    IF t.kind = "Method" THEN Corr(b, a, b.Methods[t.Name], r, seen)
    ELSE IF t.kind # r.kind THEN {}
    ELSE CASE t.kind = "Var" -> {<<t.id, r.id>>}
      [] t.kind = "App" ->
            UNION {Corr(b, a, t.Args[i], r.Args[i], seen) : i \in 1..Len(t.Args)}
            \cup Corr(b, a, t.Const, r.Const, seen)
            \cup (IF t.Underlying = NilType \/ r.Underlying = NilType THEN {}
                  ELSE Corr(b, a, t.Underlying, r.Underlying, seen))
      [] t.kind = "Arrow" ->
            UNION {Corr(b, a, t.Args[i], r.Args[i], seen) : i \in 1..Len(t.Args)}
            \cup Corr(b, a, t.Return, r.Return, seen)
      [] t.kind \in {"Record", "Variant"} -> Corr(b, a, t.Row, r.Row, seen)
      [] t.kind = "RowExtend" ->
            UNION {UNION {Corr(b, a, t.Labels[i].Types[j], r.Labels[i].Types[j], seen) :
                             j \in 1..Len(t.Labels[i].Types)} : i \in 1..Len(t.Labels)}
            \cup Corr(b, a, t.Row, r.Row, seen)
      [] t.kind = "RecursiveLink" ->
            IF t.Recursive \in seen THEN {}
            ELSE UNION {Corr(b, a, b.recs[t.Recursive].Types[i],
                             a.recs[r.Recursive].Types[i], seen \cup {t.Recursive}) :
                           i \in 1..Len(b.recs[t.Recursive].Types)}
      [] OTHER -> {}

\* What the last call put in the place of each occurrence of a generic variable.
Occurrences ==
    {o \in Corr(Before, After, last.t, last.ret, {}) : last.vars[o[1]].state = "generic"}
\* The occurrences that were given a variable allocated by the call.
Replaced == {o \in Occurrences : o[2] > Len(last.vars)}

\* C7: the result of instantiating a generic type holds no generic variable;
\* every occurrence of one has been replaced by a variable allocated by the
\* call, unbound and at the level of the call.
C7_NoGenericVarLeft ==
    (Instantiated /\ IsGeneric(Before, last.t)) =>
        /\ \A v \in TypeVars(After, last.ret, {}) : vars[v].state # "generic"
        /\ \A o \in Occurrences :
              /\ o \in Replaced
              /\ vars[o[2]].state = "unbound"
              /\ vars[o[2]].level = last.level

\* C8: within a call every occurrence of one generic variable is replaced by
\* one and the same fresh variable and different generic variables by different
\* ones; between calls the lookup tables of typeutil are empty, and the result
\* of a call shares no fresh variable with the results of the calls before it.
C8_MemoizedPerCall ==
    Instantiated =>
        /\ Occurrences = Replaced
        /\ \A o1, o2 \in Occurrences : (o1[1] = o2[1]) <=> (o1[2] = o2[2])
        /\ InstLookup = <<>> /\ RecInstLookup = <<>>
        /\ \A i \in 1..Len(last.prev) :
              TypeVars(After, last.ret, {}) \cap TypeVars(After, last.prev[i], {})
                  \subseteq 1..Len(InitVars)

\* C9: the fresh variable that replaces a generic variable is weak iff that
\* variable is, size-restricted iff that variable is, and carries the same
\* instance constraints, in both implementations.
C9_RestrictionsPreserved ==
    Instantiated =>
        \A o \in Replaced :
            /\ vars[o[2]].weak = last.vars[o[1]].weak
            /\ vars[o[2]].size = last.vars[o[1]].size
            /\ vars[o[2]].constraints = last.vars[o[1]].constraints

\* C10: a call leaves every variable, every recursive group and every arrow of
\* the method table that existed before it as it was; on a type that is not
\* generic it returns that type and allocates nothing.
C10_InputNotMutated ==
    Instantiated =>
        /\ \A i \in 1..Len(last.vars) : vars[i] = last.vars[i]
        /\ \A i \in 1..Len(last.recs) : recs[i] = last.recs[i]
        /\ Methods = last.Methods
        /\ ~IsGeneric(Before, last.t) =>
              (last.ret = last.t /\ Len(vars) = Len(last.vars) /\ Len(recs) = Len(last.recs))

\* What the memo tables do by themselves: among the occurrences a call did
\* replace, one generic variable always got one fresh variable and two generic
\* variables two; the tables of typeutil are empty between calls and the
\* results of two calls share none of the variables allocated by the calls.
MemoizedWhereReplaced ==
    Instantiated =>
        /\ \A o1, o2 \in Replaced : (o1[1] = o2[1]) <=> (o1[2] = o2[2])
        /\ InstLookup = <<>> /\ RecInstLookup = <<>>
        /\ \A i \in 1..Len(last.prev) :
              TypeVars(After, last.ret, {}) \cap TypeVars(After, last.prev[i], {})
                  \subseteq 1..Len(InitVars)

\* The pairs <<l, m>> such that the recursive link l stands at a position of t
\* and the link m at the same position of r, through the member types of the
\* groups the links refer to; t is read in the store b, r in the store a.
RECURSIVE LinkPairs(_, _, _, _, _)
LinkPairs(b, a, t, r, seen) ==
    IF t.kind # r.kind THEN {}
    ELSE CASE t.kind = "App" ->
            UNION {LinkPairs(b, a, t.Args[i], r.Args[i], seen) : i \in 1..Len(t.Args)}
            \cup LinkPairs(b, a, t.Const, r.Const, seen)
            \cup (IF t.Underlying = NilType \/ r.Underlying = NilType THEN {}
                  ELSE LinkPairs(b, a, t.Underlying, r.Underlying, seen))
      [] t.kind = "Arrow" ->
            UNION {LinkPairs(b, a, t.Args[i], r.Args[i], seen) : i \in 1..Len(t.Args)}
            \cup LinkPairs(b, a, t.Return, r.Return, seen)
      [] t.kind \in {"Record", "Variant"} -> LinkPairs(b, a, t.Row, r.Row, seen)
      [] t.kind = "RowExtend" ->
            UNION {UNION {LinkPairs(b, a, t.Labels[i].Types[j], r.Labels[i].Types[j], seen) :
                             j \in 1..Len(t.Labels[i].Types)} : i \in 1..Len(t.Labels)}
            \cup LinkPairs(b, a, t.Row, r.Row, seen)
      [] t.kind = "RecursiveLink" ->
            {<<t, r>>}
            \cup (IF t.Recursive \in seen THEN {}
                  ELSE UNION {LinkPairs(b, a, b.recs[t.Recursive].Types[i],
                                        a.recs[r.Recursive].Types[i],
                                        seen \cup {t.Recursive}) :
                                 i \in 1..Len(b.recs[t.Recursive].Types)})
      [] OTHER -> {}

\* The links of the last call's input, and of the groups they reach, each with
\* the link the call returned in its place.
CopiedLinks == LinkPairs(Before, After, last.t, last.ret, {})

\* C18: instantiating a type with generic links to recursive groups whose
\* members link back to the group returns; every link, in the result and in
\* the members of the copies, keeps its index and refers to a group allocated
\* by the call, one per source group: a copy with the id and as many members as
\* the source, marked instantiated, its ContainsGenericVars flag cleared and
\* its members free of generic variables.
C18_RecursiveGroupCopiedOnce ==
    (Instantiated /\ IsGeneric(Before, last.t)) =>
        /\ \A p \in CopiedLinks :
              last.recs[p[1].Recursive].ContainsGenericVars =>
                  /\ p[2].Index = p[1].Index
                  /\ p[2].Recursive \in (Len(last.recs) + 1)..Len(recs)
                  /\ recs[p[2].Recursive].Id = last.recs[p[1].Recursive].Id
                  /\ Len(recs[p[2].Recursive].Types) = Len(last.recs[p[1].Recursive].Types)
                  /\ recs[p[2].Recursive].Instantiated
                  /\ ~recs[p[2].Recursive].ContainsGenericVars
                  /\ \A v \in TypeVars(After, p[2], {}) : vars[v].state # "generic"
        /\ \A p, q \in CopiedLinks :
              (p[1].Recursive = q[1].Recursive) <=> (p[2].Recursive = q[2].Recursive)
        /\ Len(recs) - Len(last.recs) = Cardinality({p[1].Recursive : p \in CopiedLinks})

\* A second call on tree[a] -> forest[a] has copied the two groups again: both
\* links of the result refer to one new copy of the second group, whose members
\* link back to that copy and to the new copy of the list group.
C18_Witness ==
    /\ Instantiated
    /\ calls = 2
    /\ last.t = TArrow(<<TRecursiveLink(2, 1)>>, TRecursiveLink(2, 2))
    /\ last.ret.kind = "Arrow"
    /\ last.ret.Args[1].kind = "RecursiveLink" /\ last.ret.Return.kind = "RecursiveLink"
    /\ last.ret.Args[1].Recursive = last.ret.Return.Recursive
    /\ last.ret.Args[1].Recursive > Len(last.recs)
    /\ Len(recs) = Len(InitRecs) + 4
    /\ Cardinality(CopiedLinks) = 3
    /\ \E p \in CopiedLinks : p[1] = TRecursiveLink(1, 1) /\ p[2].Recursive = Len(recs)

\* ------------------------------------------- literals and their using-names

\* The last call inferred the literal e, whose callback returns the tuple of the
\* types it was handed, and the names uv reached the callback: the call failed
\* on a name that is not bound, or returned a tuple of one type per name, in
\* order, each the type the name is bound to, a generic one instantiated with
\* variables allocated by the call at its level.
UsingReachedCallback(e, uv) ==
    (Inferred /\ last.e = e) =>
        LET unbound == {i \in 1..Len(uv) : Lookup(last.env, uv[i]) = NilType} IN
        IF unbound # {}
        THEN /\ Failed
             /\ \E i \in unbound : last.err = "Variable " \o uv[i] \o " is not defined"
        ELSE /\ Succeeded
             /\ last.ret.kind = "App"
             /\ last.ret.Const = TConst("tuple")
             /\ Len(last.ret.Args) = Len(uv)
             /\ \A i \in 1..Len(uv) :
                   LET t == Lookup(last.env, uv[i])
                       now == [vars |-> vars, recs |-> recs, Methods |-> Methods]
                   IN IF IsGeneric(now, t)
                      THEN /\ last.ret.Args[i].kind = t.kind
                           /\ \A v \in TypeVars(now, last.ret.Args[i], {}) :
                                 /\ v > Len(last.vars)
                                 /\ vars[v].state = "unbound"
                                 /\ vars[v].level = 0
                      ELSE last.ret.Args[i] = t

\* C19: for a literal built with construct.Literal(syntax, usingVars, f),
\* inference looks up each name of usingVars, fails if one is not bound and
\* otherwise calls f with one type per name, in order; the result of f is
\* instantiated at the level of the call.
C19_LiteralUsingReachesCallback ==
    \A uv \in UsingLists : UsingReachedCallback(Literal("tuple", uv, ConstructUsing), uv)

\* The same of a literal whose Using field holds the names.
UsingOfAstLiteralReachesCallback ==
    \A uv \in UsingLists : UsingReachedCallback(AstLiteral("tuple", uv, ConstructUsing), uv)

\* What a literal built by the constructor does: whatever names it was given,
\* the callback is handed no type and inference succeeds.
ConstructorDropsUsing ==
    \A uv \in UsingLists :
        (Inferred /\ last.e = Literal("tuple", uv, ConstructUsing)) =>
            Succeeded /\ last.ret = TApp(TConst("tuple"), <<>>)

====
